---- MODULE Spec2Model ----
(***************************************************************************)
(* Refresh-token rotation of the e-commerce backend: AuthService           *)
(* (issueRefreshToken, findRefreshTokenByPlain,                            *)
(* revokeRefreshFamilyByFamilyId, rotateRefreshToken), the cookie based    *)
(* refresh endpoint and the two logout handlers.                           *)
(*                                                                         *)
(* A handler is split at its awaits on the store: one step is one store    *)
(* operation together with the synchronous code that follows it up to the  *)
(* next await.  Handlers suspended at an await are kept in the bag         *)
(* inflight; handlers are anonymous, so two of them in the same position   *)
(* are the same element twice.  Rows carry the fields the rotation logic   *)
(* reads or writes (userAgent, ip and createdAt are left out).             *)
(*                                                                         *)
(* The second half is the access side: the access-token issuer            *)
(* (generateToken, generateCustomerToken, verifyToken), the authorization  *)
(* guards (authenticateAdmin, authenticateCustomer, optionalAuth), the     *)
(* CSRF guard (verifyCsrf) and registration and login of both kinds of     *)
(* principal.  There a request is served in one step and stays in outcome  *)
(* until it ends.                                                          *)
(*                                                                         *)
(* The last part is the checkout: OrderService.createOrder, split at its   *)
(* awaits like the rotation handlers.                                      *)
(***************************************************************************)
EXTENDS Integers, Sequences, FiniteSets, Bags, TLC

\* ---------------------------------------------------------------- bounds
NumProcs == 2      \* request handlers that can be in flight at once
MaxRecords == 3    \* refresh-token rows the store can hold
MaxTime == 2       \* the clock runs over 1..MaxTime
TtlTicks == 1      \* ttlMs (7 days) measured in clock ticks
MaxPrincipals == 1 \* rows the admins table and the customers table can hold
MaxJwtHours == 2   \* access-token lifetimes run over 1..MaxJwtHours
JWT_EXPIRES_HOURS == 1   \* env.JWT_EXPIRES_HOURS, in clock ticks
MaxRegistered == 2 \* rows a principal table can hold under concurrent registration
InitialStock == 2  \* stockQuantity of every product at the start
MaxQuantity == 2   \* quantities of an order item run over 1..MaxQuantity
MaxOrders == 2     \* orders that can be created

\* prisma null (revokedAt: null, replacedById null, adminId ?? null)
NULL == 0

Kinds == {"admin", "customer"}
LogoutRoutes == {"logoutAdmin", "logoutCustomer"}
\* plaintexts a client can present: every issued one and one never issued
Plains == 1..(MaxRecords + 1)

VARIABLES
    store,        \* prisma.refreshToken: sequence of rows, row id = index
    now,          \* the clock read by new Date() / Date.now()
    inflight,     \* bag of handlers suspended at an await
    sent,         \* the response sent by the latest step ("none" if it sent none)
    loggedOut,    \* history: families a logout has revoked
    createdFrom,  \* history: row -> row it was rotated from (NULL for a root)
    admins,       \* prisma.admin: sequence of rows, row id = index
    customers,    \* prisma.customer: sequence of rows, row id = index
    outcome,      \* the request being served by the access side and what
                  \* the middleware or handler did with it
    products,     \* prisma.product: sequence of rows, row id = index
    orders        \* prisma.order: the items of every order created

vars == <<store, now, inflight, sent, loggedOut, createdFrom,
          admins, customers, outcome, products, orders>>
\* the state of the access side
accessVars == <<admins, customers, outcome>>
\* the state of the checkout
orderVars == <<products, orders>>

\* ------------------------------------------------------- AuthService code

\* crypto.createHash('sha256').update(plain).digest('hex'): collision free
\* on the plaintexts of the model, and never the plaintext itself
hashToken(plain) == 2 * plain + 101

\* crypto.randomBytes(48): a plaintext no earlier row was created with
FreshPlain(s) == Len(s) + 1

SetMax(S) == CHOOSE m \in S : \A k \in S : k <= m
SetMin(S) == CHOOSE m \in S : \A k \in S : m <= k

\* crypto.randomBytes(16): a family id no row carries yet
FreshFamily(s) == 1 + SetMax({0} \cup {s[i].familyId : i \in 1..Len(s)})

\* variant: findFirst without the where clause
findRefreshTokenByPlain_AnyRow(s, plain) ==
    IF Len(s) = 0 THEN NULL ELSE 1

\* prisma.refreshToken.findFirst({ where: { tokenHash } }): row id or NULL
findRefreshTokenByPlain(s, plain) ==
    LET tokenHash == hashToken(plain)
        hits == {i \in 1..Len(s) : s[i].tokenHash = tokenHash}
    IN  IF hits = {} THEN NULL ELSE SetMin(hits)

\* variant: update of one row instead of updateMany
revokeRefreshFamilyByFamilyId_One(s, familyId, t) ==
    LET hits == {i \in 1..Len(s) : s[i].familyId = familyId /\ s[i].revokedAt = NULL}
    IN  IF hits = {} THEN s ELSE [s EXCEPT ![SetMin(hits)].revokedAt = t]

\* variant: where clause without revokedAt: null
revokeRefreshFamilyByFamilyId_All(s, familyId, t) ==
    [i \in 1..Len(s) |->
        IF s[i].familyId = familyId
        THEN [s[i] EXCEPT !.revokedAt = t]
        ELSE s[i]]

\* variant: where clause without familyId
revokeRefreshFamilyByFamilyId_AnyFamily(s, familyId, t) ==
    [i \in 1..Len(s) |->
        IF s[i].revokedAt = NULL
        THEN [s[i] EXCEPT !.revokedAt = t]
        ELSE s[i]]

\* updateMany({ where: { familyId, revokedAt: null }, data: { revokedAt } })
revokeRefreshFamilyByFamilyId(s, familyId, t) ==
    [i \in 1..Len(s) |->
        IF s[i].familyId = familyId /\ s[i].revokedAt = NULL
        THEN [s[i] EXCEPT !.revokedAt = t]
        ELSE s[i]]

\* variant: only a row that was rotated away counts as reused
IsRevoked_OnlyRotated(rec) == rec.revokedAt # NULL /\ rec.replacedById # NULL

\* if (existing.revokedAt)
IsRevoked(rec) == rec.revokedAt # NULL

\* variant: expiresAt < new Date()
IsExpired_Strict(rec, t) == rec.expiresAt < t

\* existing.expiresAt <= new Date()
IsExpired(rec, t) == rec.expiresAt <= t

\* variant: the create forgets customerId
CreateRecord_AdminOnly(s, adminId, customerId, familyId, plain, t) ==
    Append(s, [adminId |-> adminId, customerId |-> NULL,
               familyId |-> familyId, tokenHash |-> hashToken(plain),
               expiresAt |-> t + TtlTicks, revokedAt |-> NULL,
               replacedById |-> NULL])

\* prisma.refreshToken.create({ data: {...} }) of issue and of rotation
CreateRecord(s, adminId, customerId, familyId, plain, t) ==
    Append(s, [adminId |-> adminId, customerId |-> customerId,
               familyId |-> familyId, tokenHash |-> hashToken(plain),
               expiresAt |-> t + TtlTicks, revokedAt |-> NULL,
               replacedById |-> NULL])

\* variant: the update sets the replacement link and forgets revokedAt
UpdateRotated_LinkOnly(s, id, newId, t) ==
    [s EXCEPT ![id].replacedById = newId]

\* update({ where: { id }, data: { revokedAt: new Date(), replacedById } })
UpdateRotated(s, id, newId, t) ==
    [s EXCEPT ![id].revokedAt = t, ![id].replacedById = newId]

\* ---------------------------------------------------- access-token issuer

\* env.JWT_SECRET, the process secret
JWT_SECRET == "JWT_SECRET"
\* no string at all, or the empty one: a header, cookie or token that is absent
Empty == <<>>
\* a property the object does not have (decoded.adminId of a customer token)
Undefined == 0 - 1

\* jwt.sign(payload, secret, { expiresIn }) at time t: the payload
\* { <idKey>: id, type }, the iat and exp claims, and the signature, which
\* only the holder of the secret can make
JwtSign(idKey, id, type, secret, expiresIn, t) ==
    <<idKey, id, type, t, t + expiresIn, secret>>

\* what verification gives when it throws
NotDecoded ==
    [ok |-> FALSE, adminId |-> Undefined, customerId |-> Undefined,
     type |-> "", iat |-> 0, exp |-> 0]

\* variant: verification with ignoreExpiration
JwtVerify_IgnoreExpiration(token, secret, t) ==
    IF Len(token) # 6 THEN NotDecoded
    ELSE IF token[6] # secret THEN NotDecoded
    ELSE [ok |-> TRUE,
          adminId |-> IF token[1] = "adminId" THEN token[2] ELSE Undefined,
          customerId |-> IF token[1] = "customerId" THEN token[2] ELSE Undefined,
          type |-> token[3], iat |-> token[4], exp |-> token[5]]

\* jwt.verify(token, secret) at time t: throws for a malformed token, for a
\* signature not made with the secret and once the clock has reached exp;
\* otherwise returns the decoded payload
JwtVerify(token, secret, t) ==
    IF Len(token) # 6 THEN NotDecoded
    ELSE IF token[6] # secret THEN NotDecoded
    ELSE IF t >= token[5] THEN NotDecoded
    ELSE [ok |-> TRUE,
          adminId |-> IF token[1] = "adminId" THEN token[2] ELSE Undefined,
          customerId |-> IF token[1] = "customerId" THEN token[2] ELSE Undefined,
          type |-> token[3], iat |-> token[4], exp |-> token[5]]

\* AuthService.generateToken; hours is env.JWT_EXPIRES_HOURS
generateToken(adminId, hours, t) ==
    JwtSign("adminId", adminId, "admin", JWT_SECRET, hours, t)

\* AuthService.generateCustomerToken
generateCustomerToken(customerId, hours, t) ==
    JwtSign("customerId", customerId, "customer", JWT_SECRET, hours, t)

\* AuthService.verifyToken: ~ok stands for the AppError INVALID_TOKEN
verifyToken(token, t) == JwtVerify(token, JWT_SECRET, t)

\* ------------------------------------------------------------- principals

\* a row of prisma.admin / prisma.customer
PrincipalRow(email, passwordHash, isActive, lastLogin) ==
    [email |-> email, passwordHash |-> passwordHash, isActive |-> isActive,
     lastLogin |-> lastLogin, deleted |-> FALSE]
\* what is left of a row that was deleted (ids are never given out again)
DeletedRow ==
    [email |-> "", passwordHash |-> Empty, isActive |-> FALSE,
     lastLogin |-> NULL, deleted |-> TRUE]

\* bcrypt.hash / bcrypt.compare
hashPassword(password) == <<"bcrypt", password>>
comparePassword(password, hash) == hash = hashPassword(password)

\* findUnique({ where: { id } }): row id or NULL
findUniqueById(table, id) ==
    IF id \in 1..Len(table) /\ ~table[id].deleted THEN id ELSE NULL
\* findUnique({ where: { email } }): row id or NULL
findUniqueByEmail(table, email) ==
    LET hits == {i \in 1..Len(table) : ~table[i].deleted /\ table[i].email = email}
    IN  IF hits = {} THEN NULL ELSE SetMin(hits)

\* the projection of a principal a guard attaches to the request
Principal(kind, id, row) ==
    [kind |-> kind, id |-> id, email |-> row.email, isActive |-> row.isActive]
\* req.admin and req.customer both unset
NoPrincipal == [kind |-> "none", id |-> NULL, email |-> "", isActive |-> FALSE]

\* throw new AppError(message, statusCode, code)
AppError(message, statusCode, code) ==
    [ok |-> FALSE, status |-> statusCode, code |-> code, message |-> message,
     principal |-> NoPrincipal]
\* return of a principal
Returned(principal) ==
    [ok |-> TRUE, status |-> 200, code |-> "OK", message |-> "",
     principal |-> principal]

\* variant: the admin must also hold a refresh-token row that is not revoked
getAdminById_LiveSession(table, adminId) ==
    LET admin == findUniqueById(table, adminId)
    IN  IF admin = NULL
        THEN AppError("Admin not found", 404, "ADMIN_NOT_FOUND")
        ELSE IF ~table[admin].isActive
        THEN AppError("Admin account is deactivated", 401, "ACCOUNT_DEACTIVATED")
        ELSE IF \A i \in 1..Len(store) :
                    store[i].adminId = admin => store[i].revokedAt # NULL
        THEN AppError("Session revoked", 401, "INVALID_TOKEN")
        ELSE Returned(Principal("admin", admin, table[admin]))

\* AuthService.getAdminById
getAdminById(table, adminId) ==
    LET admin == findUniqueById(table, adminId)
    IN  IF admin = NULL
        THEN AppError("Admin not found", 404, "ADMIN_NOT_FOUND")
        ELSE IF ~table[admin].isActive
        THEN AppError("Admin account is deactivated", 401, "ACCOUNT_DEACTIVATED")
        ELSE Returned(Principal("admin", admin, table[admin]))

\* CustomerService.getCustomerById
getCustomerById(table, id) ==
    LET customer == findUniqueById(table, id)
    IN  IF customer = NULL
        THEN AppError("Customer not found", 404, "CUSTOMER_NOT_FOUND")
        ELSE Returned(Principal("customer", customer, table[customer]))

\* ----------------------------------------------------------------- guards

\* a request: method, Authorization header as authHeader.split(' ') gives
\* it, the access_token and csrf_token cookies, the x-csrf-token header and
\* the body of a registration or login
Request(method, authorization, access_token, csrf_cookie, csrf_header, email, password) ==
    [method |-> method, authorization |-> authorization,
     access_token |-> access_token, csrf_cookie |-> csrf_cookie,
     csrf_header |-> csrf_header, email |-> email, password |-> password]
NoRequest == Request("", Empty, Empty, "", "", "", "")

\* what a middleware or handler did: how it called next ("next()",
\* "next(error)", "none" when it answered itself), the status, code and
\* message of the error or answer, the principal left on the request; with
\* it, for the record: the token it handed to verifyToken (verified), and
\* whether it looked a principal up in the store (lookedUp)
Result(next, status, code, message, principal, verified, lookedUp) ==
    [next |-> next, status |-> status, code |-> code, message |-> message,
     principal |-> principal, verified |-> verified, lookedUp |-> lookedUp]
NoResult == Result("none", 0, "NONE", "", NoPrincipal, Empty, FALSE)
\* next() with the principal attached
Pass(principal, verified, lookedUp) ==
    Result("next()", 0, "NONE", "", principal, verified, lookedUp)
\* catch (error) { next(error) }
Forward(error, verified, lookedUp) ==
    Result("next(error)", error.status, error.code, error.message,
           NoPrincipal, verified, lookedUp)

\* variant: the cookie is looked at first
extractToken_CookieFirst(req) ==
    IF req.access_token # Empty THEN req.access_token
    ELSE LET parts == req.authorization
         IN  IF parts # Empty /\ Len(parts) = 2 /\ parts[1] = "Bearer"
             THEN parts[2]
             ELSE Empty

\* extractToken: Empty stands for null
extractToken(req) ==
    LET parts == req.authorization
    IN  IF parts # Empty /\ Len(parts) = 2 /\ parts[1] = "Bearer"
        THEN parts[2]
        ELSE req.access_token

\* variant: the type of the token is not compared
WrongType_Never(decoded, expected) == FALSE

\* decoded.type !== 'admin' / decoded.type !== 'customer'
WrongType(decoded, expected) == decoded.type # expected

\* authenticateAdmin at time t over the admins table
authenticateAdmin(req, table, t) ==
    LET token == extractToken(req)
    IN  IF token = Empty
        THEN Forward(AppError("Access token is required", 401, "TOKEN_REQUIRED"),
                     Empty, FALSE)
        ELSE LET decoded == verifyToken(token, t)
             IN  IF ~decoded.ok
                 THEN Forward(AppError("Invalid or expired token", 401, "INVALID_TOKEN"),
                              token, FALSE)
                 ELSE IF WrongType(decoded, "admin")
                 THEN Forward(AppError("Invalid token type", 401, "INVALID_TOKEN_TYPE"),
                              token, FALSE)
                 ELSE LET admin == getAdminById(table, decoded.adminId)
                      IN  IF admin.ok
                          THEN Pass(admin.principal, token, TRUE)
                          ELSE Forward(admin, token, TRUE)

\* authenticateCustomer at time t over the customers table
authenticateCustomer(req, table, t) ==
    LET token == extractToken(req)
    IN  IF token = Empty
        THEN Forward(AppError("Access token is required", 401, "TOKEN_REQUIRED"),
                     Empty, FALSE)
        ELSE LET decoded == verifyToken(token, t)
             IN  IF ~decoded.ok
                 THEN Forward(AppError("Invalid or expired token", 401, "INVALID_TOKEN"),
                              token, FALSE)
                 ELSE IF WrongType(decoded, "customer")
                 THEN Forward(AppError("Invalid token type", 401, "INVALID_TOKEN_TYPE"),
                              token, FALSE)
                 ELSE LET customer == getCustomerById(table, decoded.customerId)
                      IN  IF customer.ok
                          THEN Pass(customer.principal, token, TRUE)
                          ELSE Forward(customer, token, TRUE)

\* variant: the catch block hands the error on
Ignore_Forward(error, verified, lookedUp) == Forward(error, verified, lookedUp)

\* catch (error) { next() } of optionalAuth
Ignore(error, verified, lookedUp) == Pass(NoPrincipal, verified, lookedUp)

\* optionalAuth at time t over the admins table
optionalAuth(req, table, t) ==
    LET token == extractToken(req)
    IN  IF token = Empty
        THEN Pass(NoPrincipal, Empty, FALSE)
        ELSE LET decoded == verifyToken(token, t)
             IN  IF ~decoded.ok
                 THEN Ignore(AppError("Invalid or expired token", 401, "INVALID_TOKEN"),
                             token, FALSE)
                 ELSE IF decoded.type = "admin"
                 THEN LET admin == getAdminById(table, decoded.adminId)
                      IN  IF admin.ok
                          THEN Pass(admin.principal, token, TRUE)
                          ELSE Ignore(admin, token, TRUE)
                 ELSE Pass(NoPrincipal, token, FALSE)

\* variant: DELETE is taken for a safe method
Unsafe_NoDelete(method) == method \in {"POST", "PUT", "PATCH"}

\* method === 'POST' || method === 'PUT' || method === 'PATCH' || method === 'DELETE'
Unsafe(method) == method \in {"POST", "PUT", "PATCH", "DELETE"}

\* verifyCsrf: "" stands for a cookie or header that is undefined or empty
verifyCsrf(req) ==
    IF ~Unsafe(req.method)
    THEN Pass(NoPrincipal, Empty, FALSE)
    ELSE LET cookieToken == req.csrf_cookie
             headerToken == req.csrf_header
         IN  IF cookieToken = "" \/ headerToken = "" \/ cookieToken # headerToken
             THEN Result("none", 403, "CSRF_MISMATCH", "Invalid CSRF token",
                         NoPrincipal, Empty, FALSE)
             ELSE Pass(NoPrincipal, Empty, FALSE)

\* crypto.randomBytes(20).toString('hex'): a value no client holds yet
FreshCsrf == "minted"

\* variant: the cookie is set whether or not the request has one
issueCsrfCookie_Always(req) == [req |-> req, cookie |-> FreshCsrf]

\* issueCsrfCookie: the request as the next middleware sees it (req.cookies
\* is not written) and the csrf_token cookie set on the response ("" if none)
issueCsrfCookie(req) ==
    [req |-> req,
     cookie |-> IF req.csrf_cookie = "" THEN FreshCsrf ELSE ""]

\* --------------------------------------------------------------- helpers
FamilyOf(s, familyId) == {i \in 1..Len(s) : s[i].familyId = familyId}
ActiveOf(s, familyId) == {i \in FamilyOf(s, familyId) : s[i].revokedAt = NULL}

\* a suspended handler: the await it is at (pc), the endpoint it serves
\* (op), the row it read (existing), the row it created (newRec)
Handler(pc, o, existing, newRec) ==
    [pc |-> pc, op |-> o, existing |-> existing, newRec |-> newRec]
Handlers == BagToSet(inflight)
Suspend(h) == inflight (+) SetToBag({h})
Resume(h) == inflight (-) SetToBag({h})
Move(h, g) == (inflight (-) SetToBag({h})) (+) SetToBag({g})
\* crypto.randomBytes(48) cannot be guessed: a client presents a plaintext
\* only if no row carries it or a response has delivered it, never the one
\* a suspended rotation has created and not yet returned
Presentable(plain) == \A h \in Handlers : h.newRec # plain
\* a handler is free to take a request
Free == BagCardinality(inflight) < NumProcs
\* room for the row of this request and of every suspended rotation
Room ==
    LET creating == {h \in Handlers : h.pc = "rot_create"}
    IN  Len(store) + BagCardinality([h \in creating |-> inflight[h]]) < MaxRecords

\* a response: endpoint (op), status and error code, the refresh_token
\* cookie it sets (refresh), whether it clears the cookies (cleared); with
\* it, for the record: the row the handler read for the presented cookie
\* (row, NULL if none) and whether its updateMany matched a row (changed).
\* access is the access_token cookie and accessMaxAge its maxAge in
\* milliseconds, which only WithAccess sets; expiresAt is the expiresAt of
\* the body in milliseconds, which only WithExpiresAt sets
Response(o, row, status, code, refresh, cleared, changed) ==
    [op |-> o, row |-> row, status |-> status, code |-> code,
     refresh |-> refresh, cleared |-> cleared, changed |-> changed,
     access |-> Empty, accessMaxAge |-> 0, expiresAt |-> 0]

\* the clock of the access side counts hours ('${env.JWT_EXPIRES_HOURS}h')
HourMs == 60 * 60 * 1000
\* const accessTtlMs = 15 * 60 * 1000 of the register, login and refresh routes
accessTtlMs == 15 * 60 * 1000

\* variant: generateToken for whichever owner the row has
AccessTokenFor_AlwaysAdmin(adminId, customerId, t) ==
    IF adminId # NULL THEN generateToken(adminId, JWT_EXPIRES_HOURS, t)
    ELSE IF customerId # NULL THEN generateToken(customerId, JWT_EXPIRES_HOURS, t)
    ELSE Empty

\* rotated.adminId ? generateToken(rotated.adminId) : rotated.customerId ?
\* generateCustomerToken(rotated.customerId) : '' at time t
AccessTokenFor(adminId, customerId, t) ==
    IF adminId # NULL THEN generateToken(adminId, JWT_EXPIRES_HOURS, t)
    ELSE IF customerId # NULL THEN generateCustomerToken(customerId, JWT_EXPIRES_HOURS, t)
    ELSE Empty
\* res.cookie('access_token', accessToken, { ..., maxAge: accessTtlMs })
WithAccess(response, accessToken) ==
    [response EXCEPT !.access = accessToken, !.accessMaxAge = accessTtlMs]
\* expiresAt: new Date(Date.now() + accessTtlMs) in the body of the refresh
\* route at time t
WithExpiresAt(response, t) ==
    [response EXCEPT !.expiresAt = t * HourMs + accessTtlMs]
NoResponse == Response("none", NULL, 0, "NONE", NULL, FALSE, FALSE)

\* the request the access side is serving: the middleware or handler (mw),
\* the request, what it did, and the access_token and refresh_token cookies
\* it set; csrf_token is the csrf_token cookie set on the response, which
\* only WithCsrfCookie sets
Outcome(mw, req, res, access_token, refresh_token) ==
    [mw |-> mw, req |-> req, res |-> res,
     access_token |-> access_token, refresh_token |-> refresh_token,
     csrf_token |-> ""]
\* res.cookie(CSRF_COOKIE, token, ...)
WithCsrfCookie(o, token) == [o EXCEPT !.csrf_token = token]
NoOutcome == Outcome("none", NoRequest, NoResult, Empty, NULL)

\* a row of prisma.product: the columns the checkout reads or writes
ProductRow(stockQuantity, isActive) ==
    [stockQuantity |-> stockQuantity, isActive |-> isActive]

Init ==
    /\ store = <<>>
    /\ now = 1
    /\ inflight = EmptyBag
    /\ sent = NoResponse
    /\ loggedOut = {}
    /\ createdFrom = <<>>
    /\ admins = <<>>
    /\ customers = <<>>
    /\ outcome = NoOutcome
    /\ products = <<ProductRow(InitialStock, TRUE), ProductRow(InitialStock, TRUE),
                    ProductRow(InitialStock, FALSE)>>
    /\ orders = <<>>

\* ------------------------------------------------------------- operations

\* AuthController.register / login and the customer register / login routes:
\* issueRefreshToken for the principal, refresh_token cookie set
IssueRefreshToken(kind) ==
    /\ Free
    /\ Room
    /\ LET plainToken == FreshPlain(store)
       IN  /\ store' = CreateRecord(store,
                          IF kind = "admin" THEN 1 ELSE NULL,
                          IF kind = "customer" THEN 1 ELSE NULL,
                          FreshFamily(store), plainToken, now)
           /\ sent' = WithAccess(
                        Response("issue", NULL, 200, "OK", plainToken, FALSE, FALSE),
                        AccessTokenFor(IF kind = "admin" THEN 1 ELSE NULL,
                                       IF kind = "customer" THEN 1 ELSE NULL, now))
    /\ createdFrom' = Append(createdFrom, NULL)
    /\ UNCHANGED <<now, inflight, loggedOut>>

\* variant: the expiry of the row is tested before its revokedAt
RotateFind_ExpiryFirst(plainToken) ==
    /\ Free
    /\ Presentable(plainToken)
    /\ IF plainToken = NULL
       THEN /\ sent' = Response("rotate", NULL, 401, "REFRESH_REQUIRED", NULL, FALSE, FALSE)
            /\ UNCHANGED inflight
       ELSE LET e == findRefreshTokenByPlain(store, plainToken)
            IN  IF e = NULL
                THEN /\ sent' = Response("rotate", NULL, 401, "INVALID_REFRESH", NULL, FALSE, FALSE)
                     /\ UNCHANGED inflight
                ELSE IF IsExpired(store[e], now)
                THEN /\ sent' = Response("rotate", e, 401, "REFRESH_EXPIRED", NULL, FALSE, FALSE)
                     /\ UNCHANGED inflight
                ELSE IF IsRevoked(store[e])
                THEN /\ inflight' = Suspend(Handler("rot_reuse", "rotate", e, NULL))
                     /\ sent' = NoResponse
                ELSE /\ Room
                     /\ inflight' = Suspend(Handler("rot_create", "rotate", e, NULL))
                     /\ sent' = NoResponse
    /\ UNCHANGED <<store, now, loggedOut, createdFrom>>

\* POST /refresh-token up to and including the first await of
\* rotateRefreshToken (the lookup) and the checks that follow it
RotateFind(plainToken) ==
    /\ Free
    /\ Presentable(plainToken)
    /\ IF plainToken = NULL
       THEN /\ sent' = Response("rotate", NULL, 401, "REFRESH_REQUIRED", NULL, FALSE, FALSE)
            /\ UNCHANGED inflight
       ELSE LET e == findRefreshTokenByPlain(store, plainToken)
            IN  IF e = NULL
                THEN /\ sent' = Response("rotate", NULL, 401, "INVALID_REFRESH", NULL, FALSE, FALSE)
                     /\ UNCHANGED inflight
                ELSE IF IsRevoked(store[e])
                THEN /\ inflight' = Suspend(Handler("rot_reuse", "rotate", e, NULL))
                     /\ sent' = NoResponse
                ELSE IF IsExpired(store[e], now)
                THEN /\ sent' = Response("rotate", e, 401, "REFRESH_EXPIRED", NULL, FALSE, FALSE)
                     /\ UNCHANGED inflight
                ELSE /\ Room
                     /\ inflight' = Suspend(Handler("rot_create", "rotate", e, NULL))
                     /\ sent' = NoResponse
    /\ UNCHANGED <<store, now, loggedOut, createdFrom>>

\* reuse branch: await revokeRefreshFamilyByFamilyId, throw REFRESH_REUSE
RotateReuse(h) ==
    /\ h \in Handlers
    /\ h.pc = "rot_reuse"
    /\ LET familyId == store[h.existing].familyId
       IN  /\ store' = revokeRefreshFamilyByFamilyId(store, familyId, now)
           /\ sent' = Response("rotate", h.existing, 401, "REFRESH_REUSE", NULL, FALSE,
                               ActiveOf(store, familyId) # {})
    /\ inflight' = Resume(h)
    /\ UNCHANGED <<now, loggedOut, createdFrom>>

\* await prisma.refreshToken.create: the successor row in the same family
RotateCreate(h) ==
    /\ h \in Handlers
    /\ h.pc = "rot_create"
    /\ LET e == h.existing
       IN  store' = CreateRecord(store, store[e].adminId, store[e].customerId,
                                 store[e].familyId, FreshPlain(store), now)
    /\ createdFrom' = Append(createdFrom, h.existing)
    /\ inflight' = Move(h, Handler("rot_update", "rotate", h.existing, Len(store) + 1))
    /\ sent' = NoResponse
    /\ UNCHANGED <<now, loggedOut>>

\* await prisma.refreshToken.update on the old row, then the route sets the
\* new refresh_token cookie and answers
RotateUpdate(h) ==
    /\ h \in Handlers
    /\ h.pc = "rot_update"
    /\ store' = UpdateRotated(store, h.existing, h.newRec, now)
    /\ sent' = WithExpiresAt(
                 WithAccess(
                   Response("rotate", h.existing, 200, "OK", h.newRec, FALSE, FALSE),
                   AccessTokenFor(store[h.existing].adminId,
                                  store[h.existing].customerId, now)),
                 now)
    /\ inflight' = Resume(h)
    /\ UNCHANGED <<now, loggedOut, createdFrom>>

\* AuthController.logout / customer POST /logout up to the lookup
LogoutFind(r, refreshToken) ==
    /\ Free
    /\ Presentable(refreshToken)
    /\ LET e == IF refreshToken = NULL THEN NULL
                ELSE findRefreshTokenByPlain(store, refreshToken)
       IN  IF e = NULL
           THEN /\ sent' = Response(r, NULL, 200, "OK", NULL, TRUE, FALSE)
                /\ UNCHANGED inflight
           ELSE /\ inflight' = Suspend(Handler("lo_revoke", r, e, NULL))
                /\ sent' = NoResponse
    /\ UNCHANGED <<store, now, loggedOut, createdFrom>>

\* await revokeRefreshFamilyByFamilyId, clear both cookies, answer 200
LogoutRevoke(h) ==
    /\ h \in Handlers
    /\ h.pc = "lo_revoke"
    /\ LET familyId == store[h.existing].familyId
       IN  /\ store' = revokeRefreshFamilyByFamilyId(store, familyId, now)
           /\ sent' = Response(h.op, h.existing, 200, "OK", NULL, TRUE,
                               ActiveOf(store, familyId) # {})
           /\ loggedOut' = loggedOut \cup {familyId}
    /\ inflight' = Resume(h)
    /\ UNCHANGED <<now, createdFrom>>

\* a refresh_token cookie is present and the lookup of logout throws: the
\* catch block swallows it, the cookies are cleared, the answer is still 200
LogoutFindError(r) ==
    /\ Free
    /\ sent' = Response(r, NULL, 200, "OK", NULL, TRUE, FALSE)
    /\ UNCHANGED <<store, now, inflight, loggedOut, createdFrom>>

\* the family revocation of logout throws: same catch block
LogoutRevokeError(h) ==
    /\ h \in Handlers
    /\ h.pc = "lo_revoke"
    /\ sent' = Response(h.op, h.existing, 200, "OK", NULL, TRUE, FALSE)
    /\ inflight' = Resume(h)
    /\ UNCHANGED <<store, now, loggedOut, createdFrom>>

\* time passes between two steps
Tick ==
    /\ now < MaxTime
    /\ now' = now + 1
    /\ sent' = NoResponse
    /\ UNCHANGED <<store, inflight, loggedOut, createdFrom>>

Next ==
    \/ \E kind \in Kinds : IssueRefreshToken(kind) /\ UNCHANGED <<accessVars, orderVars>>
    \/ \E x \in Plains \cup {NULL} : RotateFind(x) /\ UNCHANGED <<accessVars, orderVars>>
    \/ \E r \in LogoutRoutes, x \in Plains \cup {NULL} : LogoutFind(r, x) /\ UNCHANGED <<accessVars, orderVars>>
    \/ \E r \in LogoutRoutes : LogoutFindError(r) /\ UNCHANGED <<accessVars, orderVars>>
    \/ \E h \in Handlers : RotateReuse(h) /\ UNCHANGED <<accessVars, orderVars>>
    \/ \E h \in Handlers : RotateCreate(h) /\ UNCHANGED <<accessVars, orderVars>>
    \/ \E h \in Handlers : RotateUpdate(h) /\ UNCHANGED <<accessVars, orderVars>>
    \/ \E h \in Handlers : LogoutRevoke(h) /\ UNCHANGED <<accessVars, orderVars>>
    \/ \E h \in Handlers : LogoutRevokeError(h) /\ UNCHANGED <<accessVars, orderVars>>
    \/ Tick /\ UNCHANGED <<accessVars, orderVars>>

\* requests arrive at any time: handlers interleave at their awaits
Spec == Init /\ [][Next]_vars

\* the same handlers when requests are served strictly one after another
Quiet == inflight = EmptyBag

NextSeq ==
    \/ \E kind \in Kinds : Quiet /\ IssueRefreshToken(kind) /\ UNCHANGED <<accessVars, orderVars>>
    \/ \E x \in Plains \cup {NULL} : Quiet /\ RotateFind(x) /\ UNCHANGED <<accessVars, orderVars>>
    \/ \E r \in LogoutRoutes, x \in Plains \cup {NULL} : Quiet /\ LogoutFind(r, x) /\ UNCHANGED <<accessVars, orderVars>>
    \/ \E r \in LogoutRoutes : Quiet /\ LogoutFindError(r) /\ UNCHANGED <<accessVars, orderVars>>
    \/ \E h \in Handlers : RotateReuse(h) /\ UNCHANGED <<accessVars, orderVars>>
    \/ \E h \in Handlers : RotateCreate(h) /\ UNCHANGED <<accessVars, orderVars>>
    \/ \E h \in Handlers : RotateUpdate(h) /\ UNCHANGED <<accessVars, orderVars>>
    \/ \E h \in Handlers : LogoutRevoke(h) /\ UNCHANGED <<accessVars, orderVars>>
    \/ \E h \in Handlers : LogoutRevokeError(h) /\ UNCHANGED <<accessVars, orderVars>>
    \/ Tick /\ UNCHANGED <<accessVars, orderVars>>

SpecSeq == Init /\ [][NextSeq]_vars

\* ------------------------------------------------------------ access side
\* A request is served in one step: each guard and each handler reads a
\* principal table once.  The request stays in outcome until EndRequest.

rotationVars == <<inflight, sent, loggedOut>>
\* no request is being served
Idle == outcome = NoOutcome

Emails == {"a@x.com", "b@x.com"}
Passwords == {"Abcdefg1", "Abcdefg2"}
Methods == {"GET", "HEAD", "OPTIONS", "POST", "PUT", "PATCH", "DELETE"}
CsrfValues == {"", "c1", "c2"}

\* a token signed with a key that is not the process secret
ForgedToken(t) == JwtSign("adminId", 1, "admin", "attacker", JWT_EXPIRES_HOURS, t)
\* a string that is no JWT
Garbage == <<"garbage">>
\* the access tokens a client can present: the ones the issuer has made for
\* a principal id up to now, a forged one and a malformed one
PresentedTokens ==
    {generateToken(id, JWT_EXPIRES_HOURS, iat) :
        id \in 1..MaxPrincipals, iat \in 1..now}
    \cup {generateCustomerToken(id, JWT_EXPIRES_HOURS, iat) :
        id \in 1..MaxPrincipals, iat \in 1..now}
    \cup {ForgedToken(now), Garbage}
\* Authorization headers: none, 'Bearer <token>', and three that are not of
\* that form ('Bearer', 'Basic <token>', 'Bearer <token> <token>')
Headers ==
    {Empty, <<"Bearer">>}
    \cup {<<"Bearer", tok>> : tok \in PresentedTokens}
    \cup {<<"Basic", generateToken(1, JWT_EXPIRES_HOURS, now)>>,
          <<"Bearer", generateToken(1, JWT_EXPIRES_HOURS, now),
            generateToken(1, JWT_EXPIRES_HOURS, now)>>}
GuardRequests ==
    {Request("GET", h, c, "", "", "", "") :
        h \in Headers, c \in PresentedTokens \cup {Empty}}
CsrfRequests ==
    {Request(m, Empty, c, ck, hd, "", "") :
        m \in Methods, c \in {Empty, generateToken(1, JWT_EXPIRES_HOURS, now)},
        ck \in CsrfValues, hd \in CsrfValues}

\* a route behind authenticateAdmin
AuthenticateAdmin(req) ==
    /\ Idle
    /\ outcome' = Outcome("authenticateAdmin", req,
                          authenticateAdmin(req, admins, now), Empty, NULL)
    /\ UNCHANGED <<admins, customers, store, createdFrom, now, rotationVars, orderVars>>

\* a route behind authenticateCustomer
AuthenticateCustomer(req) ==
    /\ Idle
    /\ outcome' = Outcome("authenticateCustomer", req,
                          authenticateCustomer(req, customers, now), Empty, NULL)
    /\ UNCHANGED <<admins, customers, store, createdFrom, now, rotationVars, orderVars>>

\* a route behind optionalAuth
OptionalAuth(req) ==
    /\ Idle
    /\ outcome' = Outcome("optionalAuth", req,
                          optionalAuth(req, admins, now), Empty, NULL)
    /\ UNCHANGED <<admins, customers, store, createdFrom, now, rotationVars, orderVars>>

\* app.use(CSRF.verifyCsrf)
VerifyCsrf(req) ==
    /\ Idle
    /\ outcome' = Outcome("verifyCsrf", req, verifyCsrf(req), Empty, NULL)
    /\ UNCHANGED <<admins, customers, store, createdFrom, now, rotationVars, orderVars>>

\* POST /register of either kind (AuthController.register with
\* AuthService.register, and the customer route): an email that is taken is
\* answered 409; otherwise the principal is created active, lastLogin is
\* set, a refresh token is issued and both cookies are set
Register(kind, email, password) ==
    /\ Idle
    /\ LET table == IF kind = "admin" THEN admins ELSE customers
           req == Request("POST", Empty, Empty, "", "", email, password)
           id == Len(table) + 1
       IN  IF findUniqueByEmail(table, email) # NULL
           THEN /\ outcome' = Outcome("register", req,
                       Forward(IF kind = "admin"
                               THEN AppError("Admin with this email already exists",
                                             409, "ADMIN_EXISTS")
                               ELSE AppError("Customer with this email already exists",
                                             409, "CUSTOMER_EXISTS"),
                               Empty, TRUE),
                       Empty, NULL)
                /\ UNCHANGED <<admins, customers, store, createdFrom>>
           ELSE /\ Len(table) < MaxPrincipals
                /\ Len(store) < MaxRecords
                /\ LET row == PrincipalRow(email, hashPassword(password), TRUE, now)
                   IN  IF kind = "admin"
                       THEN admins' = Append(admins, row) /\ UNCHANGED customers
                       ELSE customers' = Append(customers, row) /\ UNCHANGED admins
                /\ store' = CreateRecord(store,
                               IF kind = "admin" THEN id ELSE NULL,
                               IF kind = "customer" THEN id ELSE NULL,
                               FreshFamily(store), FreshPlain(store), now)
                /\ createdFrom' = Append(createdFrom, NULL)
                /\ outcome' = Outcome("register", req,
                       Result("none", 201, "OK", "", NoPrincipal, Empty, TRUE),
                       AccessTokenFor(IF kind = "admin" THEN id ELSE NULL,
                                      IF kind = "customer" THEN id ELSE NULL, now),
                       FreshPlain(store))
    /\ UNCHANGED <<now, rotationVars, orderVars>>

\* variant: the password is not compared
PasswordRejected_Never(password, row) == FALSE

\* !(await comparePassword(password, passwordHash))
PasswordRejected(password, row) == ~comparePassword(password, row.passwordHash)

\* POST /login of either kind (AuthController.login with AuthService.login,
\* and the customer route)
Login(kind, email, password) ==
    /\ Idle
    /\ LET table == IF kind = "admin" THEN admins ELSE customers
           req == Request("POST", Empty, Empty, "", "", email, password)
           id == findUniqueByEmail(table, email)
       IN  IF id = NULL
           THEN /\ outcome' = Outcome("login", req,
                       Forward(AppError("Invalid email or password", 401,
                                        "INVALID_CREDENTIALS"), Empty, TRUE),
                       Empty, NULL)
                /\ UNCHANGED <<admins, customers, store, createdFrom>>
           ELSE IF ~table[id].isActive
           THEN /\ outcome' = Outcome("login", req,
                       Forward(IF kind = "admin"
                               THEN AppError("Admin account is deactivated", 401,
                                             "ACCOUNT_DEACTIVATED")
                               ELSE AppError("Account is deactivated", 401,
                                             "ACCOUNT_DEACTIVATED"),
                               Empty, TRUE),
                       Empty, NULL)
                /\ UNCHANGED <<admins, customers, store, createdFrom>>
           ELSE IF PasswordRejected(password, table[id])
           THEN /\ outcome' = Outcome("login", req,
                       Forward(AppError("Invalid email or password", 401,
                                        "INVALID_CREDENTIALS"), Empty, TRUE),
                       Empty, NULL)
                /\ UNCHANGED <<admins, customers, store, createdFrom>>
           ELSE /\ Len(store) < MaxRecords
                /\ IF kind = "admin"
                   THEN /\ admins' = [admins EXCEPT ![id].lastLogin = now]
                        /\ UNCHANGED customers
                   ELSE /\ customers' = [customers EXCEPT ![id].lastLogin = now]
                        /\ UNCHANGED admins
                /\ store' = CreateRecord(store,
                               IF kind = "admin" THEN id ELSE NULL,
                               IF kind = "customer" THEN id ELSE NULL,
                               FreshFamily(store), FreshPlain(store), now)
                /\ createdFrom' = Append(createdFrom, NULL)
                /\ outcome' = Outcome("login", req,
                       Result("none", 200, "OK", "", NoPrincipal, Empty, TRUE),
                       AccessTokenFor(IF kind = "admin" THEN id ELSE NULL,
                                      IF kind = "customer" THEN id ELSE NULL, now),
                       FreshPlain(store))
    /\ UNCHANGED <<now, rotationVars, orderVars>>

\* the is_active column of a principal is changed in the database
SetActive(kind, id, isActive) ==
    /\ Idle
    /\ LET table == IF kind = "admin" THEN admins ELSE customers
       IN  /\ findUniqueById(table, id) # NULL
           /\ table[id].isActive # isActive
    /\ IF kind = "admin"
       THEN admins' = [admins EXCEPT ![id].isActive = isActive] /\ UNCHANGED customers
       ELSE customers' = [customers EXCEPT ![id].isActive = isActive] /\ UNCHANGED admins
    /\ UNCHANGED <<outcome, store, createdFrom, now, rotationVars, orderVars>>

\* a principal is deleted in the database: the foreign keys of
\* refresh_tokens are ON DELETE SET NULL
Delete(kind, id) ==
    /\ Idle
    /\ findUniqueById(IF kind = "admin" THEN admins ELSE customers, id) # NULL
    /\ IF kind = "admin"
       THEN admins' = [admins EXCEPT ![id] = DeletedRow] /\ UNCHANGED customers
       ELSE customers' = [customers EXCEPT ![id] = DeletedRow] /\ UNCHANGED admins
    /\ store' = [i \in 1..Len(store) |->
                    IF kind = "admin" /\ store[i].adminId = id
                    THEN [store[i] EXCEPT !.adminId = NULL]
                    ELSE IF kind = "customer" /\ store[i].customerId = id
                    THEN [store[i] EXCEPT !.customerId = NULL]
                    ELSE store[i]]
    /\ UNCHANGED <<outcome, createdFrom, now, rotationVars, orderVars>>

\* the response is sent and the request is over
EndRequest ==
    /\ ~Idle
    /\ outcome' = NoOutcome
    /\ UNCHANGED <<admins, customers, store, createdFrom, now, rotationVars, orderVars>>

\* the guards and the CSRF guard over registered, deactivated and deleted
\* principals
NextGuard ==
    \/ \E req \in GuardRequests : AuthenticateAdmin(req)
    \/ \E req \in GuardRequests : AuthenticateCustomer(req)
    \/ \E req \in GuardRequests : OptionalAuth(req)
    \/ \E req \in CsrfRequests : VerifyCsrf(req)
    \/ \E kind \in Kinds : Register(kind, "a@x.com", "Abcdefg1")
    \/ \E kind \in Kinds, id \in 1..MaxPrincipals, b \in BOOLEAN : SetActive(kind, id, b)
    \/ \E kind \in Kinds, id \in 1..MaxPrincipals : Delete(kind, id)
    \/ EndRequest
    \/ Idle /\ Tick /\ UNCHANGED <<accessVars, orderVars>>

SpecGuard == Init /\ [][NextGuard]_vars

\* registration and login of both kinds of principal
NextLogin ==
    \/ \E kind \in Kinds, email \in Emails, password \in Passwords :
            Register(kind, email, password)
    \/ \E kind \in Kinds, email \in Emails, password \in Passwords :
            Login(kind, email, password)
    \/ \E kind \in Kinds, id \in 1..MaxPrincipals, b \in BOOLEAN : SetActive(kind, id, b)
    \/ \E kind \in Kinds, id \in 1..MaxPrincipals : Delete(kind, id)
    \/ EndRequest
    \/ Idle /\ Tick /\ UNCHANGED <<accessVars, orderVars>>

SpecLogin == Init /\ [][NextLogin]_vars

\* --------------------------------------------------------------- sessions
\* The application as app.ts wires it: every request passes issueCsrfCookie
\* and verifyCsrf before its route.  Requests are served one after another;
\* a principal registers, logs in, refreshes, logs out and calls guarded
\* routes, and its is_active column is switched in between.

\* the response of the latest refresh or logout has gone out
Delivered == sent = NoResponse
EndResponse ==
    /\ ~Delivered
    /\ sent' = NoResponse
    /\ UNCHANGED <<store, now, inflight, loggedOut, createdFrom>>

\* verifyCsrf answers 403 itself: no route runs
Stopped(req) ==
    LET issued == issueCsrfCookie(req)
    IN  /\ outcome' = WithCsrfCookie(
                        Outcome("verifyCsrf", req, verifyCsrf(issued.req), Empty, NULL),
                        issued.cookie)
        /\ UNCHANGED <<admins, customers, store, createdFrom, now, rotationVars, orderVars>>

\* app.use(CSRF.issueCsrfCookie); app.use(CSRF.verifyCsrf); app.use(routes):
\* route is the step of the route handler
App(req, route) ==
    /\ Idle
    /\ Quiet
    /\ Delivered
    /\ IF verifyCsrf(issueCsrfCookie(req).req).next = "none"
       THEN Stopped(req)
       ELSE route

\* POST /api/v1/admin/register and POST /api/v1/auth/register
PostRegister(kind, req) == App(req, Register(kind, req.email, req.password))
\* POST /api/v1/admin/login and POST /api/v1/auth/login
PostLogin(kind, req) == App(req, Login(kind, req.email, req.password))
\* POST /api/v1/admin/refresh-token with the refresh_token cookie
PostRefresh(req, refreshToken) ==
    App(req, RotateFind(refreshToken) /\ UNCHANGED <<accessVars, orderVars>>)
\* POST /api/v1/admin/logout and POST /api/v1/auth/logout
PostLogout(r, req, refreshToken) ==
    App(req, LogoutFind(r, refreshToken) /\ UNCHANGED <<accessVars, orderVars>>)
\* GET /api/v1/admin/profile
GetAdminProfile(req) == App(req, AuthenticateAdmin(req))
\* GET /api/v1/auth/profile
GetCustomerProfile(req) == App(req, AuthenticateCustomer(req))
\* a GET behind optionalAuth
GetOptional(req) == App(req, OptionalAuth(req))

\* csrf_token cookie and x-csrf-token header of a request: matching, cookie
\* missing (with a header, with the value being minted), the two different
CsrfPairs ==
    {<<"c1", "c1">>, <<"", "c1">>, <<"", FreshCsrf>>, <<"c1", "c2">>}
\* POST requests without a body, with the body of a registration, with the
\* bodies of a login
PostRequests ==
    {Request("POST", Empty, Empty, p[1], p[2], "", "") : p \in CsrfPairs}
RegisterRequests ==
    {Request("POST", Empty, Empty, p[1], p[2], "a@x.com", "Abcdefg1") : p \in CsrfPairs}
LoginRequests ==
    {Request("POST", Empty, Empty, p[1], p[2], "a@x.com", pw) :
        p \in CsrfPairs, pw \in Passwords}
\* GET requests with an access_token cookie the issuer has made
ProfileRequests ==
    {Request("GET", Empty, tok, "", "", "", "") :
        tok \in {generateToken(1, JWT_EXPIRES_HOURS, iat) : iat \in 1..now}
             \cup {generateCustomerToken(1, JWT_EXPIRES_HOURS, iat) : iat \in 1..now}}

NextSession ==
    \/ \E kind \in Kinds, req \in RegisterRequests : PostRegister(kind, req)
    \/ \E kind \in Kinds, req \in LoginRequests : PostLogin(kind, req)
    \/ \E req \in PostRequests, x \in Plains \cup {NULL} : PostRefresh(req, x)
    \/ \E r \in LogoutRoutes, req \in PostRequests, x \in Plains \cup {NULL} :
            PostLogout(r, req, x)
    \/ \E req \in ProfileRequests : GetAdminProfile(req)
    \/ \E req \in ProfileRequests : GetCustomerProfile(req)
    \/ \E req \in ProfileRequests : GetOptional(req)
    \/ \E h \in Handlers : RotateReuse(h) /\ UNCHANGED <<accessVars, orderVars>>
    \/ \E h \in Handlers : RotateCreate(h) /\ UNCHANGED <<accessVars, orderVars>>
    \/ \E h \in Handlers : RotateUpdate(h) /\ UNCHANGED <<accessVars, orderVars>>
    \/ \E h \in Handlers : LogoutRevoke(h) /\ UNCHANGED <<accessVars, orderVars>>
    \/ \E kind \in Kinds, id \in 1..MaxPrincipals, b \in BOOLEAN :
            Delivered /\ SetActive(kind, id, b)
    \/ EndRequest
    \/ EndResponse /\ UNCHANGED <<accessVars, orderVars>>
    \/ Idle /\ Delivered /\ Tick /\ UNCHANGED <<accessVars, orderVars>>

SpecSession == Init /\ [][NextSession]_vars

\* ------------------------------------------------ concurrent registration
\* AuthService.register with AuthController.register, and the customer
\* route, split at their awaits: the lookup by email, the create, the
\* update of lastLogin and the issue of the refresh token (the admin
\* updates lastLogin before the issue, the customer after it).

\* CREATE UNIQUE INDEX "customers_email_key" ON "customers"("email")
customers_email_key == TRUE
\* the unique index on admins.email (email is a unique field of Admin:
\* prisma.admin.findUnique({ where: { email } }))
admins_email_key == TRUE

\* variant: a table without the unique index on email
CreateFails_NoIndex(kind, table, email) == FALSE

\* prisma.admin.create / prisma.customer.create throws
\* PrismaClientKnownRequestError when the unique index has the email
CreateFails(kind, table, email) ==
    /\ IF kind = "admin" THEN admins_email_key ELSE customers_email_key
    /\ findUniqueByEmail(table, email) # NULL

\* a suspended registration: the await it is at, the body of the request,
\* the id of the row it created (NULL before the create) and the plaintext
\* of its refresh token (NULL before the issue)
Registration(pc, kind, email, password, id, plain) ==
    [pc |-> pc, op |-> "register", kind |-> kind, email |-> email,
     password |-> password, id |-> id, plain |-> plain]

\* the 201 of a registration: both cookies are set
Registered(h, plain) ==
    WithAccess(Response("register", NULL, 201, "OK", plain, FALSE, FALSE),
               AccessTokenFor(IF h.kind = "admin" THEN h.id ELSE NULL,
                              IF h.kind = "customer" THEN h.id ELSE NULL, now))

\* await findUnique({ where: { email } }) and the 409 that may follow it
RegisterFind(kind, email, password) ==
    /\ Free
    /\ LET table == IF kind = "admin" THEN admins ELSE customers
       IN  IF findUniqueByEmail(table, email) # NULL
           THEN /\ sent' = Response("register", NULL, 409,
                                    IF kind = "admin" THEN "ADMIN_EXISTS"
                                    ELSE "CUSTOMER_EXISTS",
                                    NULL, FALSE, FALSE)
                /\ UNCHANGED inflight
           ELSE /\ inflight' = Suspend(Registration("reg_create", kind, email,
                                                    password, NULL, NULL))
                /\ sent' = NoResponse
    /\ UNCHANGED <<store, now, loggedOut, createdFrom, admins, customers, outcome, orderVars>>

\* await hashPassword, await create: the error handler answers a unique
\* violation with 400 DATABASE_ERROR
RegisterCreate(h) ==
    /\ h \in Handlers
    /\ h.pc = "reg_create"
    /\ LET table == IF h.kind = "admin" THEN admins ELSE customers
           row == PrincipalRow(h.email, hashPassword(h.password), TRUE, NULL)
       IN  IF CreateFails(h.kind, table, h.email)
           THEN /\ sent' = Response("register", NULL, 400, "DATABASE_ERROR",
                                    NULL, FALSE, FALSE)
                /\ inflight' = Resume(h)
                /\ UNCHANGED <<admins, customers>>
           ELSE /\ Len(table) < MaxRegistered
                /\ IF h.kind = "admin"
                   THEN admins' = Append(admins, row) /\ UNCHANGED customers
                   ELSE customers' = Append(customers, row) /\ UNCHANGED admins
                /\ inflight' = Move(h, Registration(
                                    IF h.kind = "admin" THEN "reg_touch" ELSE "reg_issue",
                                    h.kind, h.email, h.password, Len(table) + 1, NULL))
                /\ sent' = NoResponse
    /\ UNCHANGED <<store, now, loggedOut, createdFrom, outcome, orderVars>>

\* await update({ where: { id }, data: { lastLogin: new Date() } }); the
\* customer route answers after it
RegisterTouch(h) ==
    /\ h \in Handlers
    /\ h.pc = "reg_touch"
    /\ IF h.kind = "admin"
       THEN /\ admins' = [admins EXCEPT ![h.id].lastLogin = now]
            /\ inflight' = Move(h, Registration("reg_issue", h.kind, h.email,
                                                h.password, h.id, NULL))
            /\ sent' = NoResponse
            /\ UNCHANGED customers
       ELSE /\ customers' = [customers EXCEPT ![h.id].lastLogin = now]
            /\ inflight' = Resume(h)
            /\ sent' = Registered(h, h.plain)
            /\ UNCHANGED admins
    /\ UNCHANGED <<store, now, loggedOut, createdFrom, outcome, orderVars>>

\* await issueRefreshToken({ adminId }) / ({ customerId }); the admin
\* controller answers after it
RegisterIssue(h) ==
    /\ h \in Handlers
    /\ h.pc = "reg_issue"
    /\ Len(store) < MaxRecords
    /\ store' = CreateRecord(store,
                   IF h.kind = "admin" THEN h.id ELSE NULL,
                   IF h.kind = "customer" THEN h.id ELSE NULL,
                   FreshFamily(store), FreshPlain(store), now)
    /\ createdFrom' = Append(createdFrom, NULL)
    /\ IF h.kind = "admin"
       THEN /\ inflight' = Resume(h)
            /\ sent' = Registered(h, FreshPlain(store))
       ELSE /\ inflight' = Move(h, Registration("reg_touch", h.kind, h.email,
                                                h.password, h.id, FreshPlain(store)))
            /\ sent' = NoResponse
    /\ UNCHANGED <<now, loggedOut, admins, customers, outcome, orderVars>>

NextRegister ==
    \/ \E kind \in Kinds, email \in Emails : RegisterFind(kind, email, "Abcdefg1")
    \/ \E h \in Handlers : RegisterCreate(h)
    \/ \E h \in Handlers : RegisterTouch(h)
    \/ \E h \in Handlers : RegisterIssue(h)
    \/ Tick /\ UNCHANGED <<accessVars, orderVars>>

\* registrations arrive at any time and interleave at their awaits
SpecRegister == Init /\ [][NextRegister]_vars

\* ---------------------------------------------------------------- checkout
\* OrderService.createOrder split at its awaits: the findMany with the
\* checks that follow it, and the transaction, which creates the order and
\* decrements the stock of every item and commits or rolls back as a whole.

\* an item of an order
Item(productId, quantity) == [productId |-> productId, quantity |-> quantity]
\* bodies of POST /orders/create that pass createCheckoutOrderSchema: one or
\* two items with positive quantities, of products that are active,
\* inactive (3) or unknown (4), a product twice included
OrderRequests ==
    {<<Item(p, q)>> : p \in 1..4, q \in 1..MaxQuantity}
    \cup {<<Item(1, q1), Item(p2, q2)>> :
            p2 \in 1..4, q1 \in 1..MaxQuantity, q2 \in 1..MaxQuantity}

\* a createOrder suspended before its transaction
Checkout(pc, items) == [pc |-> pc, op |-> "createOrder", items |-> items]

RECURSIVE Ordered(_, _)
\* the quantity of product id in the items of an order
Ordered(items, id) ==
    IF items = <<>> THEN 0
    ELSE (IF Head(items).productId = id THEN Head(items).quantity ELSE 0)
         + Ordered(Tail(items), id)

\* tx.product.update({ data: { stockQuantity: { decrement } } }) for each item
DecrementStock(ps, items) ==
    [id \in 1..Len(ps) |->
        [ps[id] EXCEPT !.stockQuantity = @ - Ordered(items, id)]]

\* await prisma.product.findMany({ where: { id: { in }, isActive: true } })
\* and the checks on its result
CreateOrderFind(items) ==
    /\ Free
    /\ LET productIds == [i \in 1..Len(items) |-> items[i].productId]
           found == {id \in 1..Len(products) :
                        /\ \E i \in 1..Len(items) : productIds[i] = id
                        /\ products[id].isActive}
       IN  IF Cardinality(found) # Len(productIds)
           THEN /\ sent' = Response("createOrder", NULL, 400, "INVALID_PRODUCTS",
                                    NULL, FALSE, FALSE)
                /\ UNCHANGED inflight
           ELSE IF \E i \in 1..Len(items) :
                      products[items[i].productId].stockQuantity < items[i].quantity
           THEN /\ sent' = Response("createOrder", NULL, 400, "INSUFFICIENT_STOCK",
                                    NULL, FALSE, FALSE)
                /\ UNCHANGED inflight
           ELSE /\ inflight' = Suspend(Checkout("ord_tx", items))
                /\ sent' = NoResponse
    /\ UNCHANGED <<store, now, loggedOut, createdFrom, accessVars, orderVars>>

\* await prisma.$transaction: the order is created, the stock decremented,
\* the transaction commits and the controller answers 201
CreateOrderCommit(h) ==
    /\ h \in Handlers
    /\ h.pc = "ord_tx"
    /\ Len(orders) < MaxOrders
    /\ orders' = Append(orders, h.items)
    /\ products' = DecrementStock(products, h.items)
    /\ sent' = Response("createOrder", NULL, 201, "OK", NULL, FALSE, FALSE)
    /\ inflight' = Resume(h)
    /\ UNCHANGED <<store, now, loggedOut, createdFrom, accessVars>>

\* a statement of the transaction throws: everything is rolled back and the
\* error handler answers
CreateOrderAbort(h) ==
    /\ h \in Handlers
    /\ h.pc = "ord_tx"
    /\ sent' = Response("createOrder", NULL, 500, "INTERNAL_ERROR", NULL, FALSE, FALSE)
    /\ inflight' = Resume(h)
    /\ UNCHANGED <<store, now, loggedOut, createdFrom, accessVars, orderVars>>

NextOrder ==
    \/ \E items \in OrderRequests : CreateOrderFind(items)
    \/ \E h \in Handlers : CreateOrderCommit(h)
    \/ \E h \in Handlers : CreateOrderAbort(h)

\* checkouts arrive at any time and interleave at their awaits
SpecOrder == Init /\ [][NextOrder]_vars

TypeOK ==
    /\ Len(store) <= MaxRecords
    /\ Len(createdFrom) = Len(store)
    /\ now \in 1..MaxTime
    /\ BagCardinality(inflight) <= NumProcs
    /\ Len(admins) <= MaxPrincipals
    /\ Len(customers) <= MaxPrincipals

\* ----------------------------------------------------------------- claims

\* the row created with plaintext x (FreshPlain numbers them), NULL if none
RowOfPlain(x) == IF x \in 1..Len(store) THEN x ELSE NULL
\* in this step a handler suspends as g / a handler h runs on
Added(g) == CopiesIn(g, inflight') > CopiesIn(g, inflight)
Removed(h) == CopiesIn(h, inflight') < CopiesIn(h, inflight)
Rows == 1..Len(store)
Revoked(i) == store[i].revokedAt # NULL

\* C1: requests served one after another; for a token issued at login or
\* registration, a refresh that finds it neither revoked nor expired
\* answers 200 with a new refresh token, and once one refresh of it has
\* succeeded every later refresh with the same plaintext answers
\* REFRESH_REUSE and leaves no row of the family with revokedAt null
C1_RotateOnceThenReuse ==
    [][(sent'.op = "rotate" /\ sent'.row # NULL /\ createdFrom[sent'.row] = NULL) =>
        LET e == sent'.row
        IN  /\ (store[e].revokedAt = NULL /\ store[e].replacedById = NULL
                    /\ store[e].expiresAt > now)
                => (sent'.code = "OK" /\ sent'.status = 200
                      /\ sent'.refresh \notin {NULL, e})
            /\ sent'.code = "OK" => store[e].replacedById = NULL
            /\ store[e].replacedById # NULL
                => (sent'.code = "REFRESH_REUSE" /\ sent'.refresh = NULL
                      /\ ActiveOf(store', store[e].familyId) = {})]_vars

\* a login token was rotated, presented again, answered REFRESH_REUSE, and
\* the reuse revoked its successor
C1_Witness ==
    /\ sent.op = "rotate" /\ sent.code = "REFRESH_REUSE" /\ sent.changed
    /\ createdFrom[sent.row] = NULL
    /\ store[sent.row].replacedById # NULL
    /\ ActiveOf(store, store[sent.row].familyId) = {}

\* C2: with interleaved refreshes of one plaintext at most one answers with
\* a new token: a refresh answers OK only for a row that no other refresh
\* has replaced yet
C2_AtMostOneRotationWins ==
    [][(sent'.op = "rotate" /\ sent'.code = "OK")
        => store[sent'.row].replacedById = NULL]_vars

\* C3: a refresh that reads a row with revokedAt set never goes on to create
\* a successor and is never answered as invalid or expired; it is answered
\* REFRESH_REUSE without a new token, and when it is, every row the family
\* had is revoked
C3_ReuseRevokesFamily ==
    [][/\ \A g \in BagToSet(inflight') :
            (Added(g) /\ g.pc = "rot_create") => ~Revoked(g.existing)
       /\ (sent'.op = "rotate" /\ sent'.code = "REFRESH_EXPIRED")
            => ~Revoked(sent'.row)
       /\ \A x \in Plains :
            (RotateFind(x) /\ RowOfPlain(x) # NULL /\ Revoked(RowOfPlain(x)))
                => Added(Handler("rot_reuse", "rotate", RowOfPlain(x), NULL))
       /\ \A h \in Handlers :
            (h.pc = "rot_reuse" /\ Removed(h))
                => /\ sent'.op = "rotate" /\ sent'.code = "REFRESH_REUSE"
                   /\ sent'.status = 401 /\ sent'.refresh = NULL
                   /\ \A i \in FamilyOf(store, store[h.existing].familyId) :
                        store'[i].revokedAt # NULL]_vars

\* a reuse was detected and its family revocation revoked a live row
C3_Witness ==
    /\ sent.op = "rotate" /\ sent.code = "REFRESH_REUSE" /\ sent.changed
    /\ ActiveOf(store, store[sent.row].familyId) = {}

RECURSIVE RootOf(_)
\* the login row a row descends from by rotation
RootOf(i) == IF createdFrom[i] = NULL THEN i ELSE RootOf(createdFrom[i])

\* C4: when a reuse is answered, every row of the chain of the presented
\* row (every row descending from the same login row) is revoked; a revoked
\* row stays revoked; and a refresh arriving for a revoked row runs the
\* reuse branch, never the creation of a successor, so it ends in
\* REFRESH_REUSE without a token
C4_ChainBurnedForGood ==
    [][/\ (sent'.op = "rotate" /\ sent'.code = "REFRESH_REUSE")
            => \A i \in Rows : RootOf(i) = RootOf(sent'.row)
                                  => store'[i].revokedAt # NULL
       /\ \A i \in Rows : Revoked(i) => store'[i].revokedAt # NULL
       /\ \A g \in BagToSet(inflight') :
            (Added(g) /\ g.pc = "rot_create") => ~Revoked(g.existing)
       /\ \A h \in Handlers :
            (h.pc = "rot_reuse" /\ Removed(h))
                => (sent'.code = "REFRESH_REUSE" /\ sent'.refresh = NULL)]_vars

\* a chain A -> B -> C, A presented again, and the reuse revoked C
C4_Witness ==
    /\ sent.op = "rotate" /\ sent.code = "REFRESH_REUSE" /\ sent.changed
    /\ createdFrom[sent.row] = NULL
    /\ \E b, c \in Rows :
        /\ createdFrom[b] = sent.row /\ createdFrom[c] = b
        /\ store[sent.row].replacedById = b /\ store[b].replacedById = c
        /\ Revoked(sent.row) /\ Revoked(b) /\ Revoked(c)

\* C5: a rotation whose row was revoked by a family revocation while the
\* rotation was in flight (revokedAt set, no replacement link) does not
\* answer with a new token
C5_RotationLosesToFamilyRevoke ==
    [][\A h \in Handlers :
        (h.pc = "rot_update" /\ Removed(h)
            /\ Revoked(h.existing) /\ store[h.existing].replacedById = NULL)
        => sent'.code # "OK"]_vars

\* C6: every family has at most one row with revokedAt null and no row has
\* two successors
C6_SingleChain ==
    /\ \A i \in Rows : Cardinality(ActiveOf(store, store[i].familyId)) <= 1
    /\ \A i \in Rows : Cardinality({j \in Rows : createdFrom[j] = i}) <= 1

\* C7: a refresh presenting a row that is not revoked and whose expiresAt is
\* at or before the current time answers 401 REFRESH_EXPIRED, sets no
\* cookie, creates nothing and changes no row
C7_ExpiredRejected ==
    [][\A x \in Plains :
        (RotateFind(x) /\ RowOfPlain(x) # NULL /\ ~Revoked(RowOfPlain(x))
            /\ store[RowOfPlain(x)].expiresAt <= now)
        => /\ sent'.op = "rotate" /\ sent'.code = "REFRESH_EXPIRED"
           /\ sent'.status = 401 /\ sent'.refresh = NULL
           /\ store' = store /\ inflight' = inflight]_vars

\* a live row presented exactly at its expiresAt was answered REFRESH_EXPIRED
C7_Witness ==
    /\ sent.op = "rotate" /\ sent.code = "REFRESH_EXPIRED"
    /\ store[sent.row].expiresAt = now
    /\ ~Revoked(sent.row)

\* C8: a refresh presenting a plaintext whose digest no row carries answers
\* 401 INVALID_REFRESH and leaves the store as it was
C8_UnknownRejected ==
    [][\A x \in Plains :
        (RotateFind(x) /\ \A i \in Rows : store[i].tokenHash # hashToken(x))
        => /\ sent'.op = "rotate" /\ sent'.code = "INVALID_REFRESH"
           /\ sent'.status = 401 /\ sent'.refresh = NULL
           /\ store' = store /\ inflight' = inflight]_vars

\* an unknown plaintext was rejected while the store held a live row
C8_Witness ==
    /\ sent.op = "rotate" /\ sent.code = "INVALID_REFRESH"
    /\ \E i \in Rows : ~Revoked(i)

\* C9: on every store the program reaches and for every family, revoking the
\* family a second time (at the same or a later time) gives the store the
\* first revocation gave, which has no live row of the family and keeps
\* every row that was already revoked as it was
C9_RevokeFamilyIdempotent ==
    \A f \in 1..MaxRecords, t1 \in now..MaxTime :
        LET once == revokeRefreshFamilyByFamilyId(store, f, t1)
        IN  /\ \A t2 \in t1..MaxTime :
                revokeRefreshFamilyByFamilyId(once, f, t2) = once
            /\ ActiveOf(once, f) = {}
            /\ \A i \in Rows : Revoked(i) => once[i] = store[i]

\* a family revoked by logout at an earlier time was revoked again by a
\* reuse, which matched no row; a rotated row of it kept its link
C9_Witness ==
    /\ sent.op = "rotate" /\ sent.code = "REFRESH_REUSE" /\ ~sent.changed
    /\ store[sent.row].familyId \in loggedOut
    /\ \E i \in FamilyOf(store, store[sent.row].familyId) :
        store[i].revokedAt < now /\ store[i].replacedById # NULL

\* C10: once a logout has revoked a family, a refresh arriving with a token
\* of that family does not go on to create a successor
C10_NoRotationAfterLogout ==
    [][\A g \in BagToSet(inflight') :
        (Added(g) /\ g.op = "rotate"
            /\ store[g.existing].familyId \in loggedOut)
        => g.pc = "rot_reuse"]_vars

\* C17: a refresh answered 200 has created a row of the family and of the
\* owner of the presented row, returns the plaintext of that row, which is
\* not the presented one, leaves the presented row with revokedAt = now and
\* replacedById = the new row, and sets an access token that verifies to
\* the id and the kind of the owner of the presented row
C17_RotationCarriesOwner ==
    [][(sent'.op = "rotate" /\ sent'.code = "OK") =>
        LET e == sent'.row
            n == RowOfPlain(sent'.refresh)
            d == verifyToken(sent'.access, now)
        IN  /\ n # NULL /\ n # e
            /\ store[n].tokenHash = hashToken(sent'.refresh)
            /\ store[n].tokenHash # store[e].tokenHash
            /\ store[n].familyId = store[e].familyId
            /\ store[n].adminId = store[e].adminId
            /\ store[n].customerId = store[e].customerId
            /\ store'[e].revokedAt = now
            /\ store'[e].replacedById = n
            /\ d.ok
            /\ IF store[e].adminId # NULL
               THEN d.type = "admin" /\ d.adminId = store[e].adminId
               ELSE d.type = "customer" /\ d.customerId = store[e].customerId]_vars

\* a refresh of a customer's token was answered 200 with the plaintext of
\* the successor and a customer access token
C17_Witness ==
    /\ sent.op = "rotate" /\ sent.code = "OK"
    /\ store[sent.row].customerId = 1
    /\ store[sent.row].replacedById = sent.refresh
    /\ store[sent.refresh].customerId = 1
    /\ verifyToken(sent.access, now).type = "customer"
    /\ verifyToken(sent.access, now).customerId = 1

\* C19: no step removes a row; a step changes a row only by setting its
\* revokedAt (and replacedById); and a row whose revokedAt is set is never
\* changed again
C19_WrittenAtMostOnce ==
    [][/\ Len(store') >= Len(store)
       /\ \A i \in Rows :
            /\ store'[i] = [store[i] EXCEPT !.revokedAt = store'[i].revokedAt,
                                            !.replacedById = store'[i].replacedById]
            /\ store'[i] # store[i] => store'[i].revokedAt # NULL
            /\ Revoked(i) => store'[i] = store[i]]_vars

\* C20: every row has exactly one of adminId and customerId, and the rows of
\* one family have the same adminId and the same customerId
C20_OneOwnerPerFamily ==
    /\ \A i \in Rows : (store[i].adminId # NULL) # (store[i].customerId # NULL)
    /\ \A i, j \in Rows :
        store[i].familyId = store[j].familyId
            => /\ store[i].adminId = store[j].adminId
               /\ store[i].customerId = store[j].customerId

\* a customer's family of two rows next to a family of an admin
C20_Witness ==
    \E i, j, k \in Rows :
        /\ i # j /\ store[i].familyId = store[j].familyId
        /\ store[i].customerId # NULL /\ store[j].customerId # NULL
        /\ store[k].adminId # NULL

\* ------------------------------------------------- claims: the access side

\* an Authorization header of the form 'Bearer <token>'
WellFormed(h) == Len(h) = 2 /\ h[1] = "Bearer"
\* the bearer value of a request is tok
Carries(req, tok) ==
    IF WellFormed(req.authorization)
    THEN req.authorization[2] = tok
    ELSE req.access_token = tok
\* issue times of tokens that have not expired yet
Unexpired == {iat \in 1..now : now < iat + JWT_EXPIRES_HOURS}
\* a live row of a principal table
Exists(table, id) == id \in 1..Len(table) /\ ~table[id].deleted
Guards == {"authenticateAdmin", "authenticateCustomer"}

\* C11: authenticateAdmin hands a signed, unexpired customer token on as
\* 401 INVALID_TOKEN_TYPE, authenticateCustomer does the same with an admin
\* token, and neither attaches a principal, whatever rows the two tables
\* hold under the id of the token
C11_CrossKindRejected ==
    \A id \in 1..MaxPrincipals, iat \in Unexpired :
        /\ (outcome.mw = "authenticateAdmin"
              /\ Carries(outcome.req, generateCustomerToken(id, JWT_EXPIRES_HOURS, iat)))
            => /\ outcome.res.next = "next(error)"
               /\ outcome.res.status = 401
               /\ outcome.res.code = "INVALID_TOKEN_TYPE"
               /\ outcome.res.principal = NoPrincipal
        /\ (outcome.mw = "authenticateCustomer"
              /\ Carries(outcome.req, generateToken(id, JWT_EXPIRES_HOURS, iat)))
            => /\ outcome.res.next = "next(error)"
               /\ outcome.res.status = 401
               /\ outcome.res.code = "INVALID_TOKEN_TYPE"
               /\ outcome.res.principal = NoPrincipal

\* authenticateAdmin rejected an unexpired customer token of id 1 while an
\* active admin and an active customer both have id 1
C11_Witness ==
    /\ outcome.mw = "authenticateAdmin"
    /\ outcome.res.code = "INVALID_TOKEN_TYPE"
    /\ \E iat \in Unexpired :
        Carries(outcome.req, generateCustomerToken(1, JWT_EXPIRES_HOURS, iat))
    /\ Exists(admins, 1) /\ admins[1].isActive
    /\ Exists(customers, 1) /\ customers[1].isActive

\* C12: for both guards and a signed, unexpired token of the expected kind:
\* the principal gone is answered with a 404 not-found error, the principal
\* inactive with ACCOUNT_DEACTIVATED, and a principal is attached only if its
\* row exists and is active
C12_PrincipalExistsAndActive ==
    \A id \in 1..MaxPrincipals, iat \in Unexpired :
        /\ (outcome.mw = "authenticateAdmin"
              /\ Carries(outcome.req, generateToken(id, JWT_EXPIRES_HOURS, iat)))
            => /\ ~Exists(admins, id)
                    => (outcome.res.next = "next(error)" /\ outcome.res.status = 404)
               /\ (Exists(admins, id) /\ ~admins[id].isActive)
                    => (outcome.res.next = "next(error)"
                          /\ outcome.res.code = "ACCOUNT_DEACTIVATED")
               /\ outcome.res.principal # NoPrincipal
                    => (Exists(admins, id) /\ admins[id].isActive)
        /\ (outcome.mw = "authenticateCustomer"
              /\ Carries(outcome.req, generateCustomerToken(id, JWT_EXPIRES_HOURS, iat)))
            => /\ ~Exists(customers, id)
                    => (outcome.res.next = "next(error)" /\ outcome.res.status = 404)
               /\ (Exists(customers, id) /\ ~customers[id].isActive)
                    => (outcome.res.next = "next(error)"
                          /\ outcome.res.code = "ACCOUNT_DEACTIVATED")
               /\ outcome.res.principal # NoPrincipal
                    => (Exists(customers, id) /\ customers[id].isActive)

\* C13: both guards verify the token of a header of the form
\* 'Bearer <token>' and no other when there is one, also when it is invalid
\* and the cookie is valid; without such a header they verify the
\* access_token cookie; with neither they hand on 401 TOKEN_REQUIRED having
\* verified nothing and looked nothing up
C13_HeaderBeforeCookie ==
    outcome.mw \in Guards =>
        LET req == outcome.req
            res == outcome.res
        IN  /\ WellFormed(req.authorization)
                => /\ res.verified = req.authorization[2]
                   /\ ~verifyToken(req.authorization[2], now).ok
                        => (res.next = "next(error)" /\ res.code = "INVALID_TOKEN"
                              /\ res.principal = NoPrincipal)
            /\ (~WellFormed(req.authorization) /\ req.access_token # Empty)
                => res.verified = req.access_token
            /\ (~WellFormed(req.authorization) /\ req.access_token = Empty)
                => /\ res.next = "next(error)"
                   /\ res.status = 401 /\ res.code = "TOKEN_REQUIRED"
                   /\ res.verified = Empty /\ ~res.lookedUp

\* authenticateAdmin got a forged token in the header and, in the cookie, an
\* unexpired token of an active admin, and handed on INVALID_TOKEN
C13_Witness ==
    /\ outcome.mw = "authenticateAdmin"
    /\ outcome.req.authorization = <<"Bearer", ForgedToken(now)>>
    /\ \E iat \in Unexpired :
        outcome.req.access_token = generateToken(1, JWT_EXPIRES_HOURS, iat)
    /\ Exists(admins, 1) /\ admins[1].isActive
    /\ outcome.res.code = "INVALID_TOKEN"

\* C14: optionalAuth always calls next() without an error and answers
\* nothing itself; it attaches a principal only for a signed, unexpired
\* admin token whose admin exists and is active, and then that admin
C14_OptionalAuthNeverRejects ==
    outcome.mw = "optionalAuth" =>
        /\ outcome.res.next = "next()"
        /\ outcome.res.status = 0
        /\ outcome.res.principal # NoPrincipal
            => \E id \in 1..MaxPrincipals, iat \in Unexpired :
                /\ Carries(outcome.req, generateToken(id, JWT_EXPIRES_HOURS, iat))
                /\ Exists(admins, id) /\ admins[id].isActive
                /\ outcome.res.principal = Principal("admin", id, admins[id])

\* optionalAuth got an unexpired token of a deactivated admin and called
\* next() with no principal
C14_Witness ==
    /\ outcome.mw = "optionalAuth"
    /\ \E iat \in Unexpired :
        Carries(outcome.req, generateToken(1, JWT_EXPIRES_HOURS, iat))
    /\ Exists(admins, 1) /\ ~admins[1].isActive
    /\ outcome.res.next = "next()"
    /\ outcome.res.principal = NoPrincipal

\* C15: verifyCsrf answers 403 CSRF_MISMATCH to every POST, PUT, PATCH and
\* DELETE whose x-csrf-token header is missing, whose csrf_token cookie is
\* missing or whose header and cookie differ, with or without an
\* access_token cookie; it calls next() for every GET, HEAD and OPTIONS
C15_CsrfDoubleSubmit ==
    outcome.mw = "verifyCsrf" =>
        LET req == outcome.req
        IN  /\ (req.method \in {"POST", "PUT", "PATCH", "DELETE"}
                  /\ (req.csrf_header = "" \/ req.csrf_cookie = ""
                        \/ req.csrf_header # req.csrf_cookie))
                => /\ outcome.res.next = "none"
                   /\ outcome.res.status = 403
                   /\ outcome.res.code = "CSRF_MISMATCH"
            /\ req.method \in {"GET", "HEAD", "OPTIONS"}
                => (outcome.res.next = "next()" /\ outcome.res.status = 0)

\* a DELETE with an access_token cookie, a csrf_token cookie and a header
\* that differs from the cookie was answered CSRF_MISMATCH
C15_Witness ==
    /\ outcome.mw = "verifyCsrf"
    /\ outcome.req.method = "DELETE"
    /\ outcome.req.access_token # Empty
    /\ outcome.req.csrf_cookie = "c1" /\ outcome.req.csrf_header = "c2"
    /\ outcome.res.code = "CSRF_MISMATCH"

\* C16: for every id from 0, both kinds, every lifetime from 1 and every
\* issue time up to now: at every time before the expiry verifyToken gives
\* back the id and the kind the token was issued for, at every time after
\* it verifyToken fails; a token signed with another key and a string that
\* is no token fail at every time; and a guard that was handed an expired,
\* forged or malformed token hands on 401 INVALID_TOKEN
C16_AccessTokenRoundTrip ==
    /\ \A id \in 0..MaxPrincipals, hours \in 1..MaxJwtHours, iat \in 1..now,
          t \in 1..(MaxTime + MaxJwtHours + 1) :
            LET a == verifyToken(generateToken(id, hours, iat), t)
                c == verifyToken(generateCustomerToken(id, hours, iat), t)
            IN  /\ (iat <= t /\ t < iat + hours)
                    => /\ a.ok /\ a.adminId = id /\ a.type = "admin"
                       /\ c.ok /\ c.customerId = id /\ c.type = "customer"
                /\ t > iat + hours => (~a.ok /\ ~c.ok)
    /\ \A iat \in 1..now, t \in 1..(MaxTime + MaxJwtHours + 1) :
            ~verifyToken(ForgedToken(iat), t).ok /\ ~verifyToken(Garbage, t).ok
    /\ (outcome.mw \in Guards /\ outcome.res.verified # Empty)
        => LET tok == outcome.res.verified
               issued == \E id \in 1..MaxPrincipals, iat \in 1..now :
                            tok \in {generateToken(id, JWT_EXPIRES_HOURS, iat),
                                     generateCustomerToken(id, JWT_EXPIRES_HOURS, iat)}
               live == \E id \in 1..MaxPrincipals, iat \in Unexpired :
                            tok \in {generateToken(id, JWT_EXPIRES_HOURS, iat),
                                     generateCustomerToken(id, JWT_EXPIRES_HOURS, iat)}
           IN  /\ live => outcome.res.code # "INVALID_TOKEN"
               /\ (~issued \/ ~live)
                    => (outcome.res.status = 401 /\ outcome.res.code = "INVALID_TOKEN")

\* a guard was handed a token the issuer made for an existing, active
\* admin, at or after its expiry, and handed on INVALID_TOKEN
C16_Witness ==
    /\ outcome.mw = "authenticateAdmin"
    /\ \E iat \in 1..now :
        /\ now >= iat + JWT_EXPIRES_HOURS
        /\ outcome.res.verified = generateToken(1, JWT_EXPIRES_HOURS, iat)
    /\ Exists(admins, 1) /\ admins[1].isActive
    /\ outcome.res.code = "INVALID_TOKEN"

\* C18: a login for an email no row has and a login for the email of a row
\* with a password that is not the row's are both handed on as 401
\* INVALID_CREDENTIALS 'Invalid email or password', set no cookie, create
\* no refresh-token row and leave every principal row (lastLogin) as it was
C18_LoginFailuresAlike ==
    [][\A kind \in Kinds, email \in Emails, password \in Passwords :
        LET table == IF kind = "admin" THEN admins ELSE customers
            hits == {i \in 1..Len(table) : Exists(table, i) /\ table[i].email = email}
        IN  (Login(kind, email, password)
                /\ \A i \in hits : table[i].passwordHash # hashPassword(password))
            => /\ outcome'.res.next = "next(error)"
               /\ outcome'.res.status = 401
               /\ outcome'.res.code = "INVALID_CREDENTIALS"
               /\ outcome'.res.message = "Invalid email or password"
               /\ outcome'.access_token = Empty
               /\ outcome'.refresh_token = NULL
               /\ store' = store
               /\ admins' = admins /\ customers' = customers]_vars

\* ------------------------------------------ claims: rotation, second part

\* C21: the access token a login, a registration or a refresh answers with
\* verifies when it is set; the instant of its exp claim is the instant the
\* access_token cookie runs out (15 minutes after it is set) and, for a
\* refresh, the expiresAt of the body; and verifyToken fails at every time
\* from that instant on
C21_AccessTokenLivesAsItsCookie ==
    [][(sent'.op \in {"issue", "rotate"} /\ sent'.code = "OK") =>
        LET d == verifyToken(sent'.access, now)
        IN  /\ d.ok
            /\ sent'.accessMaxAge = 15 * 60 * 1000
            /\ d.exp * HourMs = now * HourMs + sent'.accessMaxAge
            /\ sent'.op = "rotate" => d.exp * HourMs = sent'.expiresAt
            /\ \A t \in now..(MaxTime + 1) :
                t * HourMs >= now * HourMs + sent'.accessMaxAge
                    => ~verifyToken(sent'.access, t).ok]_vars

\* C24: a refresh that reads a row with revokedAt set and expiresAt at or
\* before the current time takes the reuse branch and is not answered
\* REFRESH_EXPIRED; the reuse branch for such a row answers 401
\* REFRESH_REUSE and leaves no row of the family with revokedAt null; and
\* REFRESH_EXPIRED is only ever the answer for a row that is not revoked
C24_RevokedBeforeExpired ==
    [][/\ \A x \in Plains :
            (RotateFind(x) /\ RowOfPlain(x) # NULL /\ Revoked(RowOfPlain(x))
                /\ store[RowOfPlain(x)].expiresAt <= now)
            => /\ Added(Handler("rot_reuse", "rotate", RowOfPlain(x), NULL))
               /\ sent'.code # "REFRESH_EXPIRED"
               /\ store' = store
       /\ \A h \in Handlers :
            (h.pc = "rot_reuse" /\ Removed(h) /\ store[h.existing].expiresAt <= now)
            => /\ sent'.op = "rotate" /\ sent'.code = "REFRESH_REUSE"
               /\ sent'.status = 401 /\ sent'.row = h.existing
               /\ ActiveOf(store', store[h.existing].familyId) = {}
       /\ (sent'.op = "rotate" /\ sent'.code = "REFRESH_EXPIRED")
            => store[sent'.row].revokedAt = NULL]_vars

\* a row that was rotated away was presented at its expiresAt, was answered
\* REFRESH_REUSE, and the reuse revoked a row of its family
C24_Witness ==
    /\ sent.op = "rotate" /\ sent.code = "REFRESH_REUSE" /\ sent.changed
    /\ store[sent.row].expiresAt <= now
    /\ store[sent.row].replacedById # NULL
    /\ store[sent.row].revokedAt < now

\* C26: a step of a rotation or of a logout that read a row of family F
\* (the creation of the successor, the update of the old row, the family
\* revocation of a reuse or of a logout) leaves every row of every other
\* family as it was and adds rows to F only; a step that ends a rotation or
\* a logout at the lookup (no cookie, unknown plaintext, expired row)
\* changes no row; and an issue at login or registration changes no row and
\* adds one row whose familyId no row had
C26_FamilyIsolation ==
    [][/\ \A h \in Handlers :
            Removed(h) =>
                LET F == store[h.existing].familyId
                IN  /\ \A i \in Rows :
                        store[i].familyId # F => store'[i] = store[i]
                    /\ \A i \in (Len(store) + 1)..Len(store') :
                        store'[i].familyId = F
       /\ ((\A h \in Handlers : ~Removed(h)) /\ sent'.op # "issue")
            => store' = store
       /\ sent'.op = "issue"
            => /\ Len(store') = Len(store) + 1
               /\ \A i \in Rows :
                    /\ store'[i] = store[i]
                    /\ store'[Len(store')].familyId # store[i].familyId]_vars

\* a reuse revoked a live row of its family while another family of the
\* same principal kept a row with revokedAt null
C26_Witness ==
    /\ sent.op = "rotate" /\ sent.code = "REFRESH_REUSE" /\ sent.changed
    /\ \E j \in Rows :
        /\ store[j].familyId # store[sent.row].familyId
        /\ store[j].adminId = store[sent.row].adminId
        /\ store[j].customerId = store[sent.row].customerId
        /\ store[j].revokedAt = NULL

\* ------------------------------------- claims: the access side, second part

\* C29: a login for the email of a deactivated row is handed on as 401
\* ACCOUNT_DEACTIVATED whatever the password, the right one included, and a
\* login for an email no row has as 401 INVALID_CREDENTIALS, so the two
\* differ for every password; a login with a password that is not the row's
\* for the email of an active row is handed on exactly as a login for an
\* email no row has; none of them sets a cookie or creates a row
C29_DeactivatedBeforePassword ==
    [][\A kind \in Kinds, email \in Emails, password \in Passwords :
        Login(kind, email, password) =>
            LET table == IF kind = "admin" THEN admins ELSE customers
                id == findUniqueByEmail(table, email)
                unknown == Forward(AppError("Invalid email or password", 401,
                                            "INVALID_CREDENTIALS"), Empty, TRUE)
            IN  /\ id = NULL => outcome'.res = unknown
                /\ (id # NULL /\ ~table[id].isActive)
                    => /\ outcome'.res.next = "next(error)"
                       /\ outcome'.res.status = 401
                       /\ outcome'.res.code = "ACCOUNT_DEACTIVATED"
                       /\ outcome'.res # unknown
                /\ (id # NULL /\ table[id].isActive
                        /\ table[id].passwordHash # hashPassword(password))
                    => outcome'.res = unknown
                /\ outcome'.res.code # "OK"
                    => /\ outcome'.access_token = Empty
                       /\ outcome'.refresh_token = NULL
                       /\ store' = store
                       /\ admins' = admins /\ customers' = customers]_vars

\* a login for a deactivated customer with a password that is not the
\* customer's was handed on as ACCOUNT_DEACTIVATED
C29_Witness ==
    /\ outcome.mw = "login"
    /\ outcome.res.code = "ACCOUNT_DEACTIVATED"
    /\ \E id \in 1..Len(customers) :
        /\ Exists(customers, id) /\ ~customers[id].isActive
        /\ customers[id].email = outcome.req.email
        /\ customers[id].passwordHash # hashPassword(outcome.req.password)

\* ------------------------------------------------------- claims: sessions

\* in this step a registration / a login / a refresh is answered with success
RegisterOk == outcome' # outcome /\ outcome'.mw = "register" /\ outcome'.res.code = "OK"
LoginOk == outcome' # outcome /\ outcome'.mw = "login" /\ outcome'.res.code = "OK"
RefreshOk == sent' # sent /\ sent'.op = "rotate" /\ sent'.code = "OK"

\* C22: a step that answers a registration, a login or a refresh with
\* success leaves the lastLogin of the principal it is for at the current
\* time; every other step (a failed registration, login or refresh, a
\* logout, a guard, a family revocation, a CSRF rejection) leaves every
\* lastLogin as it was; and no step removes a principal row
C22_LastLoginFrame ==
    [][/\ (RegisterOk \/ LoginOk)
            => LET d == verifyToken(outcome'.access_token, now)
               IN  /\ d.ok
                   /\ d.type = "admin"
                        => (Exists(admins', d.adminId)
                              /\ admins'[d.adminId].lastLogin = now
                              /\ customers' = customers)
                   /\ d.type = "customer"
                        => (Exists(customers', d.customerId)
                              /\ customers'[d.customerId].lastLogin = now
                              /\ admins' = admins)
       /\ RefreshOk
            => LET e == sent'.row
               IN  /\ store[e].adminId # NULL
                        => admins'[store[e].adminId].lastLogin = now
                   /\ store[e].customerId # NULL
                        => customers'[store[e].customerId].lastLogin = now
       /\ ~(RegisterOk \/ LoginOk \/ RefreshOk)
            => /\ \A id \in 1..Len(admins) :
                    admins'[id].lastLogin = admins[id].lastLogin
               /\ \A id \in 1..Len(customers) :
                    customers'[id].lastLogin = customers[id].lastLogin
       /\ Len(admins') >= Len(admins) /\ Len(customers') >= Len(customers)
       /\ \A id \in 1..Len(admins) : Exists(admins, id) => Exists(admins', id)
       /\ \A id \in 1..Len(customers) :
            Exists(customers, id) => Exists(customers', id)]_vars

\* the principal that owns a refresh-token row exists and is active
OwnerActive(row) ==
    IF row.adminId # NULL
    THEN Exists(admins, row.adminId) /\ admins[row.adminId].isActive
    ELSE /\ row.customerId # NULL
         /\ Exists(customers, row.customerId)
         /\ customers[row.customerId].isActive

\* C28: a login for the email of a deactivated row is handed on as 401
\* ACCOUNT_DEACTIVATED for every password, sets no cookie and creates no
\* refresh-token row; a registration or login that sets an access token
\* sets it for a principal that is active; a refresh that reads a row
\* owned by a principal that is not active does not go on to create a
\* successor; and a step of a refresh whose row is owned by a principal
\* that is not active creates no row and answers with no access token and
\* no refresh token
C28_MintedForActiveOnly ==
    [][/\ \A kind \in Kinds, email \in Emails, password \in Passwords :
            LET table == IF kind = "admin" THEN admins ELSE customers
                id == findUniqueByEmail(table, email)
            IN  (Login(kind, email, password) /\ id # NULL /\ ~table[id].isActive)
                => /\ outcome'.res.status = 401
                   /\ outcome'.res.code = "ACCOUNT_DEACTIVATED"
                   /\ outcome'.access_token = Empty
                   /\ outcome'.refresh_token = NULL
                   /\ store' = store
       /\ (RegisterOk \/ LoginOk)
            => LET d == verifyToken(outcome'.access_token, now)
               IN  /\ d.ok
                   /\ d.type = "admin"
                        => (Exists(admins', d.adminId) /\ admins'[d.adminId].isActive)
                   /\ d.type = "customer"
                        => (Exists(customers', d.customerId)
                              /\ customers'[d.customerId].isActive)
       /\ \A g \in BagToSet(inflight') :
            (Added(g) /\ g.pc = "rot_create") => OwnerActive(store[g.existing])
       /\ \A h \in Handlers :
            (Removed(h) /\ h.op = "rotate" /\ ~OwnerActive(store[h.existing]))
            => /\ Len(store') = Len(store)
               /\ sent'.access = Empty
               /\ sent'.refresh = NULL]_vars

\* the guards
GuardNames == {"authenticateAdmin", "authenticateCustomer", "optionalAuth"}

\* C25: a step of a guard changes no refresh-token row, no principal row
\* and no handler; and whatever the refresh-token rows are (all of the
\* principal's families revoked by a logout or by a detected reuse
\* included), authenticateAdmin and optionalAuth pass an unexpired token of
\* an existing, active admin with that admin attached, and
\* authenticateCustomer an unexpired token of an existing, active customer
C25_GuardIgnoresRefreshStore ==
    [][(outcome' # outcome /\ outcome'.mw \in GuardNames) =>
        /\ store' = store /\ createdFrom' = createdFrom
        /\ admins' = admins /\ customers' = customers
        /\ inflight' = inflight /\ loggedOut' = loggedOut
        /\ \A id \in 1..MaxPrincipals, iat \in Unexpired :
            /\ (outcome'.mw \in {"authenticateAdmin", "optionalAuth"}
                  /\ Carries(outcome'.req, generateToken(id, JWT_EXPIRES_HOURS, iat))
                  /\ Exists(admins, id) /\ admins[id].isActive)
                => outcome'.res =
                        Pass(Principal("admin", id, admins[id]),
                             generateToken(id, JWT_EXPIRES_HOURS, iat), TRUE)
            /\ (outcome'.mw = "authenticateCustomer"
                  /\ Carries(outcome'.req, generateCustomerToken(id, JWT_EXPIRES_HOURS, iat))
                  /\ Exists(customers, id) /\ customers[id].isActive)
                => outcome'.res =
                        Pass(Principal("customer", id, customers[id]),
                             generateCustomerToken(id, JWT_EXPIRES_HOURS, iat), TRUE)]_vars

\* authenticateAdmin passed a token of admin 1 after a logout had revoked a
\* family of that admin, a reuse had been detected in another, and no row
\* of that admin had revokedAt null; the token is not younger than the
\* logout
C25_Witness ==
    /\ outcome.mw = "authenticateAdmin"
    /\ outcome.res.next = "next()"
    /\ outcome.res.principal = Principal("admin", 1, admins[1])
    /\ \E i, j \in Rows :
        /\ store[i].adminId = 1 /\ store[i].familyId \in loggedOut
        /\ outcome.req.access_token[4] <= store[i].revokedAt
        /\ store[j].adminId = 1 /\ store[j].familyId \notin loggedOut
        /\ store[j].replacedById # NULL
    /\ \A i \in Rows : store[i].adminId = 1 => store[i].revokedAt # NULL

\* the POST requests of the session
UnsafeRequests == RegisterRequests \cup LoginRequests \cup PostRequests
\* in this step the application serves req on the POST route it is for
Served(req) ==
    \/ req \in RegisterRequests /\ \E kind \in Kinds : PostRegister(kind, req)
    \/ req \in LoginRequests /\ \E kind \in Kinds : PostLogin(kind, req)
    \/ /\ req \in PostRequests
       /\ \/ \E x \in Plains \cup {NULL} : PostRefresh(req, x)
          \/ \E r \in LogoutRoutes, x \in Plains \cup {NULL} : PostLogout(r, req, x)

\* C27: a step that answers CSRF_MISMATCH changes no refresh-token row, no
\* principal row and no handler, and sets no access_token or refresh_token
\* cookie; a POST that arrives without a csrf_token cookie is answered 403
\* CSRF_MISMATCH on every route and with every header, the value
\* issueCsrfCookie mints for it in the same request included; and
\* issueCsrfCookie sets the cookie on the response only for a request that
\* has none, leaving the cookies of the request as they were
C27_CsrfBeforeRoutes ==
    [][/\ (outcome' # outcome /\ outcome'.res.code = "CSRF_MISMATCH")
            => /\ store' = store /\ createdFrom' = createdFrom
               /\ admins' = admins /\ customers' = customers
               /\ inflight' = inflight /\ sent' = sent /\ loggedOut' = loggedOut
               /\ outcome'.access_token = Empty
               /\ outcome'.refresh_token = NULL
       /\ \A req \in {r \in UnsafeRequests : r.csrf_cookie = ""} :
            (Idle /\ Quiet /\ Delivered /\ Served(req))
            => /\ outcome'.mw = "verifyCsrf" /\ outcome'.req = req
               /\ outcome'.res.next = "none"
               /\ outcome'.res.status = 403
               /\ outcome'.res.code = "CSRF_MISMATCH"
               /\ outcome'.csrf_token = FreshCsrf
       /\ outcome' # outcome
            => \A req \in UnsafeRequests \cup ProfileRequests :
                /\ issueCsrfCookie(req).req = req
                /\ req.csrf_cookie # "" => issueCsrfCookie(req).cookie = ""
       /\ (outcome' # outcome /\ outcome'.mw = "verifyCsrf"
              /\ outcome'.req.csrf_cookie # "")
            => outcome'.csrf_token = ""]_vars

\* a login with the password of an existing, active admin, without a
\* csrf_token cookie and with the value minted in that request as its
\* header, was answered CSRF_MISMATCH
C27_Witness ==
    /\ outcome.mw = "verifyCsrf"
    /\ outcome.res.code = "CSRF_MISMATCH"
    /\ outcome.req.csrf_cookie = ""
    /\ outcome.req.csrf_header = outcome.csrf_token
    /\ \E id \in 1..Len(admins) :
        /\ Exists(admins, id) /\ admins[id].isActive
        /\ admins[id].email = outcome.req.email
        /\ admins[id].passwordHash = hashPassword(outcome.req.password)

\* --------------------------------------- claims: concurrent registration

\* the rows of a table that carry an email
WithEmail(table, email) ==
    {i \in 1..Len(table) : ~table[i].deleted /\ table[i].email = email}

\* C23: after every step of interleaved registrations each table has at
\* most one row per email; and a step that answers a registration with an
\* error for its email (409 at the lookup, or the unique violation at the
\* create when two registrations both saw no row) adds no row to either
\* table and none to the refresh tokens and sets no cookie, the
\* registration having written nothing before it
C23_OnePrincipalPerEmail ==
    [][/\ \A email \in Emails :
            /\ Cardinality(WithEmail(admins', email)) <= 1
            /\ Cardinality(WithEmail(customers', email)) <= 1
       /\ (sent' # sent /\ sent'.op = "register" /\ sent'.code # "OK")
            => /\ sent'.code \in {"ADMIN_EXISTS", "CUSTOMER_EXISTS", "DATABASE_ERROR"}
               /\ admins' = admins /\ customers' = customers
               /\ store' = store
               /\ sent'.access = Empty /\ sent'.refresh = NULL
               /\ \A h \in Handlers : Removed(h) => h.id = NULL
       /\ \A h \in Handlers :
            (h.pc = "reg_create" /\ Removed(h)
                /\ WithEmail(IF h.kind = "admin" THEN admins ELSE customers,
                             h.email) # {})
            => sent'.code = "DATABASE_ERROR"]_vars

\* two registrations of a customer with one email both passed the lookup;
\* the create of the second was answered with the unique violation and the
\* table has the one row of the first
C23_Witness ==
    /\ sent.op = "register" /\ sent.code = "DATABASE_ERROR"
    /\ admins = <<>>
    /\ Len(customers) = 1
    /\ Cardinality(WithEmail(customers, customers[1].email)) = 1

\* ------------------------------------------------------- claims: checkout

RECURSIVE Sold(_, _)
\* the quantity of product id in the orders created
Sold(os, id) ==
    IF os = <<>> THEN 0 ELSE Ordered(Head(os), id) + Sold(Tail(os), id)

\* C30: after every step of interleaved checkouts the stockQuantity of
\* every product is at least 0 and is its initial stock less the quantity
\* of it in the orders created; a step that answers a checkout with an
\* error creates no order and changes no stock; and an order is created
\* only by a step that answers 201
C30_StockNeverNegative ==
    [][/\ \A id \in 1..Len(products) :
            /\ products'[id].stockQuantity >= 0
            /\ products'[id].stockQuantity = InitialStock - Sold(orders', id)
       /\ (sent' # sent /\ sent'.op = "createOrder" /\ sent'.code # "OK")
            => (orders' = orders /\ products' = products)
       /\ orders' # orders
            => (sent'.op = "createOrder" /\ sent'.code = "OK"
                  /\ sent'.status = 201)]_vars
====
